---- MODULE Spec2Model ----
(***************************************************************************)
(* A model of the agent memory store of the multi-agent marketing system: *)
(* AgentMemorySystem of src/src/data_processor.py (the class the test     *)
(* suite imports), its reduced copy in src/src/utils/data_processing.py   *)
(* (the class the Flask routes import) and ShortTermMemory of             *)
(* src/src/memory/short_term_memory.py.                                   *)
(*                                                                         *)
(* Time.  datetime.now() is the variable now, an integer number of ticks; *)
(* an hour is TicksPerHour ticks.  Two reads of the clock with no Tick in *)
(* between return the same value, as two reads within the resolution of   *)
(* the platform clock do.                                                  *)
(*                                                                         *)
(* Each tier has its own specification (SpecShortTerm, SpecLongTerm,      *)
(* SpecEpisodic, SpecSemantic): no operation of the class reads or writes *)
(* more than one of the four containers.  SpecLongTermUtils is the        *)
(* long-term tier of the copy in utils/data_processing.py and             *)
(* SpecShortTermMemory is the ShortTermMemory class.                      *)
(*                                                                         *)
(* SpecConsolidation is MemorySystem.consolidate_memories of              *)
(* src/src/memory/memory_system.py and SpecImportance its                 *)
(* _calculate_importance; SpecOrchestrator is AgentOrchestrator of        *)
(* src/src/agents.py with the three agent classes it routes to.           *)
(***************************************************************************)
EXTENDS Integers, Sequences, FiniteSets, TLC

VARIABLES
    now,                \* datetime.now()
    short_term_memory,  \* AgentMemorySystem.short_term_memory (dict)
    st_storage,         \* ShortTermMemory.storage (dict)
    st_last_put,        \* history: the last store_short_term call per key, the
                        \* entry it replaced, whether a retrieve has returned it
    long_term_memory,   \* AgentMemorySystem.long_term_memory (dict)
    utils_long_term_memory, \* long_term_memory of the utils/data_processing copy
    lt_calls,           \* history: update_long_term calls made per lead
    utils_lt_calls,     \* the same for the utils/data_processing copy
    episodic_memory,    \* AgentMemorySystem.episodic_memory (list)
    ep_appends,         \* history: store_episode calls made
    ep_max_evicted,     \* history: the highest outcome score evicted (-1: none)
    semantic_knowledge, \* AgentMemorySystem.semantic_knowledge (dict): its
                        \* entries in insertion order, each with its key
    sem_writes,         \* history: per triple, the update_semantic_knowledge
                        \* calls made and the highest weight written
    ms_short_term,      \* MemorySystem.short_term: the entries it holds
    ms_long_term,       \* MemorySystem.long_term: the values stored, by key
    ms_episodic,        \* MemorySystem.episodic: the patterns stored
    ms_semantic,        \* MemorySystem.semantic: the knowledge merged
    ms_runs,            \* history: consolidate_memories calls made
    agents,             \* AgentOrchestrator.agents (dict): its items in order
    reg_order,          \* history: the agent ids in the order in which
                        \* register_agent first saw them
    engagement_history, \* EngagementAgent.engagement_history, per agent: the
                        \* number of records under each lead_id
    inflight,           \* the route_request or execute_handoff call that has
                        \* selected its agent and awaits it: a sequence of
                        \* at most one record
    last_registered,    \* history: per agent id, the agent of the last
                        \* register_agent call made under it
    replaced_ids,       \* history: the agent ids registered again with
                        \* another agent
    triaged,            \* history: the conversation ids for which a triage
                        \* action has been produced
    ep_heap,            \* the list objects store_episode works on while
                        \* running on several threads: their visible items
    ep_self,            \* the list object self.episodic_memory refers to
    ep_thread,          \* per thread, its place in store_episode
    ep_calls,           \* history: store_episode calls started on threads
    access_log,         \* ResourceManager.access_log (mcp_server.py)
    rm_calls,           \* history: access_resource calls made on it
    mcp_access_log,     \* ResourceManager.access_log (mcp/mcp_server.py)
    mcp_calls,          \* history: access_resource calls made on it
    loop_time,          \* asyncio.get_event_loop().time()
    request_timestamps, \* OpenAIRateLimiter.request_timestamps (list)
    token_usage,        \* OpenAIRateLimiter.token_usage (list)
    sleepers,           \* the acquire calls suspended in asyncio.sleep
    ret                 \* the operation that returned last, with its result

short_term_vars == <<short_term_memory, st_storage, st_last_put>>
long_term_vars ==
    <<long_term_memory, utils_long_term_memory, lt_calls, utils_lt_calls>>
episodic_vars == <<episodic_memory, ep_appends, ep_max_evicted>>
semantic_vars == <<semantic_knowledge, sem_writes>>
consolidation_vars ==
    <<ms_short_term, ms_long_term, ms_episodic, ms_semantic, ms_runs>>
orchestrator_vars ==
    <<agents, reg_order, engagement_history, inflight, last_registered,
      replaced_ids, triaged>>
race_vars == <<ep_heap, ep_self, ep_thread, ep_calls>>
resource_vars == <<access_log, rm_calls, mcp_access_log, mcp_calls>>
limiter_vars == <<loop_time, request_timestamps, token_usage, sleepers>>
service_vars == <<race_vars, resource_vars, limiter_vars>>
component_vars == <<consolidation_vars, orchestrator_vars, service_vars>>
vars == <<now, short_term_vars, long_term_vars, episodic_vars, semantic_vars,
          component_vars, ret>>

(***************************************************************************)
(* Bounds of the model.                                                    *)
(***************************************************************************)
TicksPerHour == 2
MaxClock == 3
MaxTTL == 1
MaxLongTermClock == 1
MaxUpdates == 3
\* The capacity of the episodic store: the literal 1000 of store_episode
\* (data_processor.py, lines 617 and 619), scaled down.
MaxEpisodes == 2
\* The store_episode calls of a run.
MaxAppends == 4
MaxTopK == 2
\* The update_semantic_knowledge calls of a run.
MaxSemanticUpdates == 4
\* The consolidate_memories calls of a run.
MaxConsolidations == 1
\* The engagement records of a run.
MaxEngagements == 2
\* The access_resource calls of a run, on each ResourceManager.
MaxAccesses == 2
\* The rate limiter: the ticks of its 60-second window, its two limits
\* (60 requests and 10000 tokens in the configuration), the loop time of
\* a run and the acquire calls recorded or sleeping at one time.
Minute == 2
RequestsPerMinute == 2
TokensPerMinute == 3
MaxLoopTime == 3
MaxAcquires == 4

None == "None"

ConversationIds == {"C1", "C2"}
Contexts == {"ctx1", "ctx2"}
\* ttl_hours is an int; zero is accepted by the code.
TTLHours == 0 .. MaxTTL
\* ShortTermMemory.__init__(ttl_hours=24): the default, scaled to the model.
DefaultTTL == MaxTTL

(***************************************************************************)
(* Python's dict operations.                                               *)
(***************************************************************************)
\* d[k] = v
DictSet(d, k, v) == [x \in DOMAIN d \cup {k} |-> IF x = k THEN v ELSE d[x]]
\* del d[k]
DictDel(d, k) == [x \in DOMAIN d \ {k} |-> d[x]]
EmptyDict == [x \in {} |-> None]

(***************************************************************************)
(* Short-term tier: AgentMemorySystem.store_short_term /                   *)
(* retrieve_short_term.                                                    *)
(***************************************************************************)
\* expiry_time = datetime.now() + timedelta(hours=ttl_hours)
ExpiryTime(t, ttl_hours) == t + ttl_hours * TicksPerHour

\* A retrieve that never finds an entry expired.
IsExpiredNever(t, memory) == FALSE
\* if datetime.now() > memory['expires_at']
IsExpired(t, memory) == t > memory.expires_at

\* A store that keeps the later of the old and the new expiry time.
StoredEntryKeepLater(stm, conversation_id, context, ttl_hours, t, t2) ==
    LET e == ExpiryTime(t, ttl_hours)
        old == IF conversation_id \in DOMAIN stm
               THEN stm[conversation_id].expires_at ELSE e
    IN  [context |-> context,
         expires_at |-> IF old > e THEN old ELSE e,
         last_updated |-> t2]
\* The entry store_short_term writes; t and t2 are its two clock reads.
StoredEntry(stm, conversation_id, context, ttl_hours, t, t2) ==
    [context |-> context,
     expires_at |-> ExpiryTime(t, ttl_hours),
     last_updated |-> t2]

\* A retrieve that returns None for an expired entry but leaves it in place.
AfterRetrieveNoPurge(stm, conversation_id, t) == stm
\* short_term_memory after retrieve_short_term(conversation_id) at time t.
AfterRetrieve(stm, conversation_id, t) ==
    IF conversation_id \in DOMAIN stm /\ IsExpired(t, stm[conversation_id])
    THEN DictDel(stm, conversation_id)
    ELSE stm

\* The value retrieve_short_term(conversation_id) returns at time t.
RetrieveResult(stm, conversation_id, t) ==
    IF conversation_id \notin DOMAIN stm THEN None
    ELSE IF IsExpired(t, stm[conversation_id]) THEN None
    ELSE stm[conversation_id].context

\* What the history records for a key that held no entry.
NoEntry == [context |-> None, expires_at |-> 0, last_updated |-> 0]

\* The entry a key holds, for the history.
EntryOf(stm, k) == IF k \in DOMAIN stm THEN stm[k] ELSE NoEntry

\* For the history: what a store of (context, ttl_hours) at time t replaces:
\* nothing, or an entry with another context that expires later, or one with
\* another context that expires no later, or an entry with the same context.
Replaced(stm, k, context, ttl_hours, t) ==
    IF k \notin DOMAIN stm THEN "nothing"
    ELSE IF stm[k].context = context THEN "same"
    ELSE IF stm[k].expires_at > t + ttl_hours * TicksPerHour THEN "later"
    ELSE "earlier"

\* The clock advances by one tick.
Tick ==
    /\ now < MaxClock
    /\ now' = now + 1
    /\ UNCHANGED <<short_term_vars, long_term_vars, episodic_vars,
                   semantic_vars, ret,
                   component_vars>>

store_short_term(conversation_id, context, ttl_hours) ==
    /\ short_term_memory' =
          DictSet(short_term_memory, conversation_id,
                  StoredEntry(short_term_memory, conversation_id,
                              context, ttl_hours, now, now))
    /\ st_last_put' = DictSet(st_last_put, conversation_id,
          [context |-> context, ttl_hours |-> ttl_hours, at |-> now,
           replaced |-> Replaced(short_term_memory, conversation_id,
                                 context, ttl_hours, now),
           hit |-> FALSE])
    /\ ret' = [op |-> "store_short_term", key |-> conversation_id]
    /\ UNCHANGED <<now, st_storage, long_term_vars, episodic_vars,
                   semantic_vars,
                   component_vars>>

retrieve_short_term(conversation_id) ==
    LET result == RetrieveResult(short_term_memory, conversation_id, now) IN
    /\ short_term_memory' = AfterRetrieve(short_term_memory, conversation_id, now)
    /\ ret' = [op |-> "retrieve_short_term", key |-> conversation_id,
               at |-> now, result |-> result,
               prior |-> EntryOf(short_term_memory, conversation_id)]
    /\ st_last_put' =
          IF conversation_id \in DOMAIN st_last_put /\ result # None
          THEN [st_last_put EXCEPT ![conversation_id].hit = TRUE]
          ELSE st_last_put
    /\ UNCHANGED <<now, st_storage, long_term_vars, episodic_vars,
                   semantic_vars,
                   component_vars>>

(***************************************************************************)
(* ShortTermMemory.store / get (src/src/memory/short_term_memory.py).     *)
(***************************************************************************)
\* ttl or self.ttl_hours: a ttl of 0 is falsy, like None, and gives the default.
TtlOrDefault(ttl) == IF ttl = 0 THEN DefaultTTL ELSE ttl

ShortTermMemory_store(key, data, ttl) ==
    /\ st_storage' = DictSet(st_storage, key,
          [data |-> data,
           expires_at |-> now + TtlOrDefault(ttl) * TicksPerHour])
    /\ ret' = [op |-> "ShortTermMemory.store", key |-> key]
    /\ UNCHANGED <<now, short_term_memory, st_last_put, long_term_vars,
                   episodic_vars, semantic_vars,
                   component_vars>>

ShortTermMemory_get(key) ==
    /\ IF key \in DOMAIN st_storage
       THEN IF now < st_storage[key].expires_at
            THEN /\ ret' = [op |-> "ShortTermMemory.get", key |-> key,
                            at |-> now, result |-> st_storage[key].data]
                 /\ UNCHANGED st_storage
            ELSE /\ st_storage' = DictDel(st_storage, key)
                 /\ ret' = [op |-> "ShortTermMemory.get", key |-> key,
                            at |-> now, result |-> None]
       ELSE /\ ret' = [op |-> "ShortTermMemory.get", key |-> key,
                       at |-> now, result |-> None]
            /\ UNCHANGED st_storage
    /\ UNCHANGED <<now, short_term_memory, st_last_put, long_term_vars,
                   episodic_vars, semantic_vars,
                   component_vars>>

(***************************************************************************)
(* Long-term tier: AgentMemorySystem.update_long_term, in                  *)
(* src/src/data_processor.py and in its copy src/src/utils/data_processing.py *)
(***************************************************************************)
LeadIds == {"L1", "L2"}
PrefKeys == {"channel", "time"}
PrefValues == {"a", "b"}
\* The preference mappings: every dict over PrefKeys.
Preferences == UNION {[D -> PrefValues] : D \in SUBSET PrefKeys}
\* rfm_score, in tenths.
RfmScores == {3, 7}

\* d.update(e): the keys of e are set in d, the other keys of d are kept.
DictUpdate(d, e) ==
    [x \in DOMAIN d \cup DOMAIN e |-> IF x \in DOMAIN e THEN e[x] ELSE d[x]]

\* The profile update_long_term leaves for lead_id (data_processor.py).
UpdatedProfile(ltm, lead_id, preferences, rfm_score, t) ==
    LET created == IF lead_id \notin DOMAIN ltm
                   THEN [created_at |-> t, interaction_count |-> 0]
                   ELSE ltm[lead_id]
    IN  DictUpdate(created,
                   [preferences |-> preferences,
                    rfm_score |-> rfm_score,
                    last_updated |-> t,
                    interaction_count |-> created.interaction_count + 1])

\* The profile the copy in utils/data_processing.py leaves: a new dict.
UtilsUpdatedProfile(ltm, lead_id, preferences, rfm_score, t) ==
    [preferences |-> preferences, rfm_score |-> rfm_score, updated_at |-> t]

\* For the history: the preferences a lead's profile holds (none without one).
PriorPreferences(ltm, lead_id) ==
    IF lead_id \in DOMAIN ltm THEN ltm[lead_id].preferences ELSE EmptyDict

LongTermTick ==
    /\ now < MaxLongTermClock
    /\ now' = now + 1
    /\ UNCHANGED <<short_term_vars, long_term_vars, episodic_vars,
                   semantic_vars, ret,
                   component_vars>>

update_long_term(lead_id, preferences, rfm_score) ==
    /\ lt_calls[lead_id] < MaxUpdates
    /\ long_term_memory' =
          DictSet(long_term_memory, lead_id,
                  UpdatedProfile(long_term_memory, lead_id, preferences,
                                 rfm_score, now))
    /\ lt_calls' = [lt_calls EXCEPT ![lead_id] = @ + 1]
    /\ ret' = [op |-> "update_long_term", lead_id |-> lead_id,
               preferences |-> preferences,
               had_profile |-> lead_id \in DOMAIN long_term_memory,
               prior |-> PriorPreferences(long_term_memory, lead_id)]
    /\ UNCHANGED <<now, short_term_vars, utils_long_term_memory,
                   utils_lt_calls, episodic_vars, semantic_vars,
                   component_vars>>

utils_update_long_term(lead_id, preferences, rfm_score) ==
    /\ utils_lt_calls[lead_id] < MaxUpdates
    /\ utils_long_term_memory' =
          DictSet(utils_long_term_memory, lead_id,
                  UtilsUpdatedProfile(utils_long_term_memory, lead_id,
                                      preferences, rfm_score, now))
    /\ utils_lt_calls' = [utils_lt_calls EXCEPT ![lead_id] = @ + 1]
    /\ ret' = [op |-> "update_long_term", lead_id |-> lead_id,
               preferences |-> preferences,
               had_profile |-> lead_id \in DOMAIN utils_long_term_memory,
               prior |-> PriorPreferences(utils_long_term_memory, lead_id)]
    /\ UNCHANGED <<now, short_term_vars, long_term_memory, lt_calls,
                   episodic_vars, semantic_vars,
                   component_vars>>

(***************************************************************************)
(* Episodic tier: AgentMemorySystem.store_episode /                        *)
(* retrieve_similar_episodes.  An episode is modelled by its episode_id,   *)
(* scenario and outcome_score; its actions, notes and timestamp are stored *)
(* with it and read by no operation.  A string is a sequence of           *)
(* characters.  episode_id is the number n of f"EP_{n:06d}": the format is *)
(* one-to-one on the natural numbers.                                      *)
(***************************************************************************)
Scenarios == {<<"a", "b">>, <<"A">>, <<"b">>}
Fragments == {<<>>, <<"a">>, <<"B">>, <<"a", "B">>, <<"b", "a">>}
\* outcome_score, on a scale of [0, 1].
Scores == {0, 1, 2}

Min(a, b) == IF a < b THEN a ELSE b
Max(a, b) == IF a > b THEN a ELSE b

\* str.lower() on one character and on a string.
LowerChar(c) == CASE c = "A" -> "a" [] c = "B" -> "b" [] OTHER -> c
Lower(str) == [i \in 1 .. Len(str) |-> LowerChar(str[i])]

\* a in b, for strings: b has a slice equal to a.
IsSubstring(a, b) ==
    \E i \in 0 .. Len(b) - Len(a) : SubSeq(b, i + 1, i + Len(a)) = a

\* scenario.lower() in ep['scenario'].lower()
ScenarioMatches(scenario, ep) == IsSubstring(Lower(scenario), Lower(ep.scenario))

\* [ep for ep in seq if ...]: the matching episodes in list order.
RECURSIVE FilterMatching(_, _)
FilterMatching(seq, scenario) ==
    IF seq = <<>> THEN <<>>
    ELSE LET rest == FilterMatching(Tail(seq), scenario)
         IN  IF ScenarioMatches(scenario, Head(seq))
             THEN <<Head(seq)>> \o rest ELSE rest

\* Where a stable descending sort puts e among the sorted episodes: after
\* every episode whose score is at least e's.
RECURSIVE InsertDesc(_, _)
InsertDesc(sorted, e) ==
    IF sorted = <<>> THEN <<e>>
    ELSE IF Head(sorted).outcome_score >= e.outcome_score
         THEN <<Head(sorted)>> \o InsertDesc(Tail(sorted), e)
         ELSE <<e>> \o sorted

RECURSIVE InsertAll(_, _)
InsertAll(sorted, seq) ==
    IF seq = <<>> THEN sorted
    ELSE InsertAll(InsertDesc(sorted, Head(seq)), Tail(seq))

\* A sort that was left out.
SortNone(seq) == seq
\* seq.sort(key=lambda x: x['outcome_score'], reverse=True): stable.
SortByScoreDesc(seq) == InsertAll(<<>>, seq)

\* seq[:k]
SliceTo(seq, k) ==
    IF k >= 0 THEN SubSeq(seq, 1, Min(k, Len(seq)))
    ELSE SubSeq(seq, 1, Max(0, Len(seq) + k))

\* The list store_episode leaves after appending the episode.
AfterAppend(appended) ==
    IF Len(appended) > MaxEpisodes
    THEN SliceTo(SortByScoreDesc(appended), MaxEpisodes)
    ELSE appended

\* For the history: the scores the truncation of store_episode drops.
EvictedScores(appended) ==
    IF Len(appended) > MaxEpisodes
    THEN {SortByScoreDesc(appended)[i].outcome_score :
             i \in MaxEpisodes + 1 .. Len(appended)}
    ELSE {}

store_episode(scenario, outcome_score) ==
    LET episode == [episode_id |-> Len(episodic_memory),
                    scenario |-> scenario,
                    outcome_score |-> outcome_score]
        appended == Append(episodic_memory, episode)
    IN  /\ ep_appends < MaxAppends
        /\ episodic_memory' = AfterAppend(appended)
        /\ ep_appends' = ep_appends + 1
        /\ ep_max_evicted' =
              IF EvictedScores(appended) = {} THEN ep_max_evicted
              ELSE Max(ep_max_evicted,
                       CHOOSE x \in EvictedScores(appended) :
                          \A y \in EvictedScores(appended) : y <= x)
        /\ ret' = [op |-> "store_episode", episode_id |-> episode.episode_id]
        /\ UNCHANGED <<now, short_term_vars, long_term_vars, semantic_vars,
                   component_vars>>

\* A query that returns the first top_k matching episodes in list order.
SimilarEpisodesUnsorted(em, scenario, top_k) ==
    SliceTo(FilterMatching(em, scenario), top_k)
\* The list retrieve_similar_episodes returns.
SimilarEpisodes(em, scenario, top_k) ==
    SliceTo(SortByScoreDesc(FilterMatching(em, scenario)), top_k)

retrieve_similar_episodes(scenario, top_k) ==
    /\ ret' = [op |-> "retrieve_similar_episodes", scenario |-> scenario,
               top_k |-> top_k,
               result |-> SimilarEpisodes(episodic_memory, scenario, top_k)]
    /\ UNCHANGED <<now, short_term_vars, long_term_vars, episodic_vars,
                   semantic_vars,
                   component_vars>>

(***************************************************************************)
(* Semantic tier: AgentMemorySystem.update_semantic_knowledge /            *)
(* query_semantic_knowledge.  The dict semantic_knowledge is the sequence  *)
(* of its entries in insertion order (the order a Python dict iterates    *)
(* in), each entry carrying its key.                                       *)
(***************************************************************************)
\* Field values; they may hold the "_" that joins them into the key.
Subjects == {"a", "a_b"}
Predicates == {"c", "b_c"}
Objects == {"d"}
Triples == Subjects \X Predicates \X Objects
\* weight, in tenths.
Weights == {4, 9}

\* triple_key = f"{subject}_{predicate}_{object_val}"
TripleKey(subject, predicate, object_val) ==
    subject \o "_" \o predicate \o "_" \o object_val

\* triple_key in self.semantic_knowledge
HasKey(sk, key) == \E i \in 1 .. Len(sk) : sk[i].key = key
\* The position of the entry self.semantic_knowledge[triple_key].
KeyIndex(sk, key) == CHOOSE i \in 1 .. Len(sk) : sk[i].key = key

\* The dict update_semantic_knowledge leaves.
AfterUpsert(sk, subject, predicate, object_val, weight, t) ==
    LET key == TripleKey(subject, predicate, object_val) IN
    IF ~HasKey(sk, key)
    THEN Append(sk, [key |-> key,
                     subject |-> subject,
                     predicate |-> predicate,
                     object |-> object_val,
                     weight |-> weight,
                     created_at |-> t,
                     access_count |-> 0])
    ELSE [sk EXCEPT ![KeyIndex(sk, key)] =
             [@ EXCEPT !.weight = Max(@, weight),
                       !.access_count = @ + 1]]

\* For the history: the update_semantic_knowledge calls made on the triples S.
RECURSIVE SumCounts(_)
SumCounts(S) ==
    IF S = {} THEN 0
    ELSE LET x == CHOOSE y \in S : TRUE
         IN  sem_writes[x].count + SumCounts(S \ {x})

update_semantic_knowledge(subject, predicate, object_val, weight) ==
    LET t == <<subject, predicate, object_val>> IN
    /\ SumCounts(Triples) < MaxSemanticUpdates
    /\ semantic_knowledge' =
          AfterUpsert(semantic_knowledge, subject, predicate, object_val,
                      weight, now)
    /\ sem_writes' = [sem_writes EXCEPT ![t] =
          [count |-> @.count + 1, max |-> Max(@.max, weight)]]
    /\ ret' = [op |-> "update_semantic_knowledge", triple |-> t,
               weight |-> weight]
    /\ UNCHANGED <<now, short_term_vars, long_term_vars, episodic_vars,
                   component_vars>>

\* A filter that is None (or empty) matches every value.
FilterMatches(filter, value) == filter = None \/ filter = value

\* The matching entries in the dict's iteration order.
RECURSIVE MatchingTriples(_, _, _, _)
MatchingTriples(sk, subject, predicate, object_val) ==
    IF sk = <<>> THEN <<>>
    ELSE LET rest == MatchingTriples(Tail(sk), subject, predicate, object_val)
             e == Head(sk)
         IN  IF /\ FilterMatches(subject, e.subject)
                /\ FilterMatches(predicate, e.predicate)
                /\ FilterMatches(object_val, e.object)
             THEN <<e>> \o rest ELSE rest

\* (x['weight'], x['access_count']) of a is at least that of b.
RankAtLeast(a, b) ==
    \/ a.weight > b.weight
    \/ a.weight = b.weight /\ a.access_count >= b.access_count

RECURSIVE InsertRanked(_, _)
InsertRanked(sorted, e) ==
    IF sorted = <<>> THEN <<e>>
    ELSE IF RankAtLeast(Head(sorted), e)
         THEN <<Head(sorted)>> \o InsertRanked(Tail(sorted), e)
         ELSE <<e>> \o sorted

RECURSIVE InsertAllRanked(_, _)
InsertAllRanked(sorted, seq) ==
    IF seq = <<>> THEN sorted
    ELSE InsertAllRanked(InsertRanked(sorted, Head(seq)), Tail(seq))

\* results.sort(key=lambda x: (x['weight'], x['access_count']), reverse=True)
SortByRank(seq) == InsertAllRanked(<<>>, seq)

query_semantic_knowledge(subject, predicate, object_val) ==
    /\ ret' = [op |-> "query_semantic_knowledge",
               result |-> SortByRank(MatchingTriples(semantic_knowledge,
                                        subject, predicate, object_val))]
    /\ UNCHANGED <<now, short_term_vars, long_term_vars, episodic_vars,
                   semantic_vars,
                   component_vars>>

(***************************************************************************)
(* The consolidation engine: MemorySystem of                               *)
(* src/src/memory/memory_system.py.  Scores are integers, in thousandths: *)
(* 0.7 is 700.  A sentiment and a lead score are in tenths, a revenue      *)
(* impact in thousands.  The four stores the engine is built on are used  *)
(* through get_recent, cleanup_old, find_similar, store, store_pattern and *)
(* update_knowledge, none of which the classes under src/src/memory       *)
(* define: these six are modelled from section 4.5 of the specification.  *)
(***************************************************************************)
MemoryIds == {"m1", "m2"}
MemoryTypes == {"interaction", "note"}
Sentiments == {-10, 8}
RevenueImpacts == {20}
LeadScores == {10}
\* What find_similar may answer: the number of similar entries known.
SimilarCounts == {0, 11}

\* memory['data']['metrics'], each of its two fields optional.
MetricsDicts ==
    {EmptyDict}
    \cup {[revenue_impact |-> r] : r \in RevenueImpacts}
    \cup {[lead_score |-> l] : l \in LeadScores}
    \cup {[revenue_impact |-> r, lead_score |-> l] :
             r \in RevenueImpacts, l \in LeadScores}
\* memory['data'], with or without metrics.
DataDicts == {EmptyDict} \cup {[metrics |-> m] : m \in MetricsDicts}
\* A short-term memory, with or without a sentiment.
Memories ==
    {[id |-> i, type |-> t, data |-> d] :
        i \in MemoryIds, t \in MemoryTypes, d \in DataDicts}
    \cup {[id |-> i, type |-> t, data |-> d, sentiment |-> s] :
             i \in MemoryIds, t \in MemoryTypes, d \in DataDicts,
             s \in Sentiments}

Abs(x) == IF x < 0 THEN -x ELSE x

\* await self.long_term.find_similar(memory['data']), as its length: the
\* store's answer is kept with the entry the question is about.
FindSimilarCount(st, id) == st[id].similar

\* An importance without the novelty term.
CalculateImportanceNoNovelty(memory, similar) ==
    LET sentiment == IF "sentiment" \in DOMAIN memory
                     THEN Abs(memory.sentiment) * 30 ELSE 0
        metrics == IF "metrics" \in DOMAIN memory.data
                   THEN memory.data.metrics ELSE EmptyDict
        revenue == IF "revenue_impact" \in DOMAIN metrics
                   THEN Min(metrics.revenue_impact, 10) * 30 ELSE 0
        lead == IF "lead_score" \in DOMAIN metrics
                THEN metrics.lead_score * 20 ELSE 0
    IN  Min(sentiment + revenue + lead, 1000)
\* _calculate_importance(memory), similar being len(similar_memories).
CalculateImportance(memory, similar) ==
    LET sentiment == IF "sentiment" \in DOMAIN memory
                     THEN Abs(memory.sentiment) * 30 ELSE 0
        novelty == (10 - similar) * 20
        metrics == IF "metrics" \in DOMAIN memory.data
                   THEN memory.data.metrics ELSE EmptyDict
        revenue == IF "revenue_impact" \in DOMAIN metrics
                   THEN Min(metrics.revenue_impact, 10) * 30 ELSE 0
        lead == IF "lead_score" \in DOMAIN metrics
                THEN metrics.lead_score * 20 ELSE 0
    IN  Min(sentiment + novelty + revenue + lead, 1000)

\* if memory['importance_score'] > 0.7
PromotionThreshold == 700

IsPromoted(scored) == scored.importance_score > PromotionThreshold

\* The orders in which get_recent may list the ids of S.
Orderings(S) ==
    {o \in [1 .. Cardinality(S) -> S] :
        \A i, j \in 1 .. Cardinality(S) : i # j => o[i] # o[j]}

\* The ids of the entries get_recent returns at time t: the unexpired ones.
RecentIds(st, t) == {i \in DOMAIN st : ~(t > st[i].expires_at)}

\* {**memory, 'importance_score': score}
Scored(st, id) ==
    [memory |-> st[id].memory,
     importance_score |->
         CalculateImportance(st[id].memory, FindSimilarCount(st, id))]

\* sorted(scored, key=importance_score, reverse=True): a stable sort.
RECURSIVE InsertScored(_, _)
InsertScored(sorted, x) ==
    IF sorted = <<>> THEN <<x>>
    ELSE IF x.importance_score > Head(sorted).importance_score
         THEN <<x>> \o sorted
         ELSE <<Head(sorted)>> \o InsertScored(Tail(sorted), x)

RECURSIVE ScoreMemories(_, _)
\* _score_memories(recent), recent being the ids in the order listed.
ScoreMemories(st, recent) ==
    IF recent = <<>> THEN <<>>
    ELSE InsertScored(ScoreMemories(st, SubSeq(recent, 1, Len(recent) - 1)),
                      Scored(st, recent[Len(recent)]))

\* key=f"{memory['type']}_{memory['id']}"
LongTermKey(memory) == memory.type \o "_" \o memory.id

\* The writes the loop makes for one scored memory, in order.
WritesFor(scored) ==
    IF IsPromoted(scored)
    THEN <<[id |-> scored.memory.id, tier |-> "long_term"]>>
         \o (IF scored.memory.type = "interaction"
             THEN <<[id |-> scored.memory.id, tier |-> "episodic"]>>
             ELSE <<>>)
         \o <<[id |-> scored.memory.id, tier |-> "semantic"]>>
    ELSE <<>>

RECURSIVE Writes(_)
\* The writes of the whole loop over scored_memories.
Writes(scored_memories) ==
    IF scored_memories = <<>> THEN <<>>
    ELSE WritesFor(Head(scored_memories)) \o Writes(Tail(scored_memories))

RECURSIVE LongTermAfter(_, _, _)
\* long_term after the writes done: store(key, value) sets the key.
LongTermAfter(lt, st, done) ==
    IF done = <<>> THEN lt
    ELSE LET w == Head(done)
             next == IF w.tier = "long_term"
                     THEN DictSet(lt, LongTermKey(st[w.id].memory),
                                  st[w.id].memory.data)
                     ELSE lt
         IN  LongTermAfter(next, st, Tail(done))

RECURSIVE EpisodicAfter(_, _, _)
\* episodic after the writes done: store_pattern(data) appends.
EpisodicAfter(ep, st, done) ==
    IF done = <<>> THEN ep
    ELSE LET w == Head(done)
             next == IF w.tier = "episodic"
                     THEN Append(ep, st[w.id].memory.data) ELSE ep
         IN  EpisodicAfter(next, st, Tail(done))

\* semantic after the writes done: update_knowledge(data) merges.
SemanticAfter(sem, st, done) ==
    sem \cup {st[done[i].id].memory.data :
                 i \in {j \in 1 .. Len(done) : done[j].tier = "semantic"}}

\* cleanup_old() at time t: the expired entries go.
CleanupOld(st, t) == [i \in RecentIds(st, t) |-> st[i]]

\* A consolidation that also drops the entries it promoted.
ShortTermAfterDroppingPromoted(st, promoted, t) ==
    [i \in RecentIds(st, t) \ promoted |-> st[i]]
\* short_term when consolidate_memories returns: only cleanup_old touches it.
ShortTermAfterConsolidation(st, promoted, t) == CleanupOld(st, t)

\* The writes done when write number fail raises (0: none raises): the
\* exception leaves the loop, no later write is made.
WritesDone(writes, fail) ==
    IF fail = 0 THEN writes ELSE SubSeq(writes, 1, fail - 1)

Range(seq) == {seq[i] : i \in 1 .. Len(seq)}

\* self.short_term.store of an entry, with find_similar's answer for it.
ms_store(memory, similar) ==
    /\ ms_short_term' =
          DictSet(ms_short_term, memory.id,
                  [memory |-> memory, similar |-> similar,
                   expires_at |-> ExpiryTime(now, DefaultTTL)])
    /\ ret' = [op |-> "ms_store"]
    /\ UNCHANGED <<now, short_term_vars, long_term_vars, service_vars,
                   episodic_vars,
                   semantic_vars, ms_long_term, ms_episodic, ms_semantic,
                   ms_runs, orchestrator_vars>>

consolidate_memories ==
    /\ ms_runs < MaxConsolidations
    /\ \E recent \in Orderings(RecentIds(ms_short_term, now)) :
          LET scored == ScoreMemories(ms_short_term, recent)
              writes == Writes(scored)
          IN  \E fail \in 0 .. Len(writes) :
                 LET done == WritesDone(writes, fail)
                     promoted == {w.id : w \in Range(done)}
                 IN  /\ ms_long_term' =
                           LongTermAfter(ms_long_term, ms_short_term, done)
                     /\ ms_episodic' =
                           EpisodicAfter(ms_episodic, ms_short_term, done)
                     /\ ms_semantic' =
                           SemanticAfter(ms_semantic, ms_short_term, done)
                     /\ ms_short_term' =
                           IF fail = 0
                           THEN ShortTermAfterConsolidation(
                                    ms_short_term, promoted, now)
                           ELSE ms_short_term
                     /\ ret' = [op |-> "consolidate_memories",
                                raised |-> fail # 0,
                                scored |-> scored,
                                written |-> Range(done),
                                failed |-> IF fail = 0 THEN {}
                                           ELSE {writes[fail]}]
    /\ ms_runs' = ms_runs + 1
    /\ UNCHANGED <<now, short_term_vars, long_term_vars, service_vars,
                   episodic_vars,
                   semantic_vars, orchestrator_vars>>

\* _calculate_importance applied to one memory, find_similar answering with
\* similar entries.
calculate_importance(memory, similar) ==
    /\ ret' = [op |-> "_calculate_importance", memory |-> memory,
               similar |-> similar,
               score |-> CalculateImportance(memory, similar)]
    /\ UNCHANGED <<now, short_term_vars, long_term_vars, episodic_vars,
                   semantic_vars, component_vars>>

(***************************************************************************)
(* The agents and their orchestrator: src/src/agents.py.  An agent object  *)
(* is the record of its agent_id and agent_type.  A value that a handler   *)
(* expects to be a dict is a record of its shape and its content, so that  *)
(* a request can carry a value of the wrong shape.                         *)
(***************************************************************************)
AgentIds == {"A-1", "A-2"}
LEAD_TRIAGE == "LeadTriage"
ENGAGEMENT == "Engagement"
CAMPAIGN_OPTIMIZER == "Optimizer"
MANAGER == "Manager"
AgentType == {LEAD_TRIAGE, ENGAGEMENT, CAMPAIGN_OPTIMIZER, MANAGER}
\* The three agent classes; no class has the type MANAGER.
AgentClasses == {LEAD_TRIAGE, ENGAGEMENT, CAMPAIGN_OPTIMIZER}
\* Two agent objects may share their agent_id and their class.
Instances == {1, 2}
Agents ==
    [agent_id : AgentIds, agent_type : AgentClasses, instance : Instances]

OrchLeadIds == {"L1"}
OrchConversationIds == {"C1"}

AsDict(d) == [shape |-> "dict", value |-> d]
\* A str where a dict is expected; its content is never read.
NotADict == [shape |-> "str", value |-> EmptyDict]
\* request['lead_data'] and context.metadata
LeadPayloads ==
    {AsDict(EmptyDict), NotADict}
    \cup {AsDict([lead_id |-> l]) : l \in OrchLeadIds}
\* request['campaign_data']: ctr may be a str where a float is expected.
CampaignPayloads ==
    {AsDict(EmptyDict), AsDict([ctr |-> "high"]), NotADict}

RequestTypes ==
    {"lead_triage", "engagement", "campaign_optimization", "unknown_type"}
\* The requests: the empty mapping, and those with a type and a
\* conversation_id whose lead_data or campaign_data is absent, a dict or a
\* value of the wrong shape.
Requests ==
    {EmptyDict}
    \cup {DictUpdate([type |-> t, conversation_id |-> c], p) :
             t \in RequestTypes, c \in OrchConversationIds,
             p \in {EmptyDict} \cup {[lead_data |-> x] : x \in LeadPayloads}
                   \cup {[campaign_data |-> x] : x \in CampaignPayloads}}

\* HandoffContext, with the fields the handlers read.
HandoffContexts ==
    [lead_id : OrchLeadIds, conversation_id : OrchConversationIds,
     metadata : LeadPayloads \cup CampaignPayloads]

\* d.get(k, default)
Get(d, k, default) == IF k \in DOMAIN d THEN d[k] ELSE default

(***************************************************************************)
(* self.agents: a dict, which keeps its keys in the order of their first   *)
(* insertion.  It is the sequence of its items.                            *)
(***************************************************************************)
Keys(items) == {items[i].key : i \in 1 .. Len(items)}

\* An assignment that leaves an existing key with its old value.
OrderedSetKeepingFirst(items, k, v) ==
    IF k \in Keys(items) THEN items
    ELSE Append(items, [key |-> k, value |-> v])
\* An assignment that moves an existing key to the end.
OrderedSetMovingToEnd(items, k, v) ==
    SelectSeq(items, LAMBDA it : it.key # k) \o <<[key |-> k, value |-> v]>>
\* items after d[k] = v: an existing key keeps its place.
OrderedSet(items, k, v) ==
    IF k \in Keys(items)
    THEN [i \in 1 .. Len(items) |->
             IF items[i].key = k THEN [key |-> k, value |-> v] ELSE items[i]]
    ELSE Append(items, [key |-> k, value |-> v])

\* A selection that takes every registered agent, whatever its type.
AgentsOfAnyType(items, agent_type) ==
    [i \in 1 .. Len(items) |-> items[i].value]
\* [agent for agent in self.agents.values() if agent.agent_type == agent_type]
AgentsOfType(items, agent_type) ==
    LET matching == SelectSeq(items,
                              LAMBDA it : it.value.agent_type = agent_type)
    IN  [i \in 1 .. Len(matching) |-> matching[i].value]

(***************************************************************************)
(* process_request and handle_handoff of the three agent classes.  What a  *)
(* body of code does is a record: it returns a value or raises.            *)
(***************************************************************************)
Return(v) == [kind |-> "return", value |-> v]
Raise(e) == [kind |-> "raise", exc |-> e]

\* The AgentAction of a result, with the fields the callers read.
Action(agent, conversation_id, lead_id, action_type) ==
    [conversation_id |-> conversation_id, lead_id |-> lead_id,
     action_type |-> action_type, source_agent |-> agent.agent_id,
     source_agent_type |-> agent.agent_type]

\* _classify_lead(lead_data)
ClassifyLead(lead_data) ==
    LET source == Get(lead_data, "source", "")
        industry == Get(lead_data, "industry", "")
        company_size == Get(lead_data, "company_size", "")
        persona == Get(lead_data, "persona", "")
    IN  IF source \in {"Google Ads", "Website"} /\ persona \in {"Founder", "CMO"}
        THEN "Campaign Qualified"
        ELSE IF industry \in {"Legal", "Healthcare"} THEN "General Inquiry"
        ELSE IF company_size \in {"5000+", "1001-5000"}
        THEN "Campaign Qualified"
        ELSE "Cold Lead"

\* triage_rules['company_size_weights'].get(company_size, 0.1) * 30
CompanySizeScore(company_size) ==
    CASE company_size = "5000+" -> 30
      [] company_size = "1001-5000" -> 24
      [] company_size = "201-1000" -> 18
      [] company_size = "51-200" -> 12
      [] company_size = "11-50" -> 6
      [] OTHER -> 3

\* _calculate_lead_score(lead_data)
CalculateLeadScore(lead_data) ==
    LET size == CompanySizeScore(Get(lead_data, "company_size", ""))
        industry == IF Get(lead_data, "industry", "")
                          \in {"SaaS", "FinTech", "HealthTech"}
                    THEN 25 ELSE 0
        persona == IF Get(lead_data, "persona", "")
                         \in {"Founder", "CMO", "CTO"}
                   THEN 20 ELSE 0
        region == IF Get(lead_data, "region", "") \in {"US", "EU"}
                  THEN 15 ELSE 0
        source == IF Get(lead_data, "source", "") \in {"Website", "Referral"}
                  THEN 10 ELSE 0
    IN  Min(size + industry + persona + region + source, 100)

\* triage_rules['high_value_threshold']
HighValueThreshold == 80

\* A routing that sends the leads it neither scores high nor qualifies to
\* the optimizer.
DetermineRoutingToOptimizer(triage_category, lead_score) ==
    IF lead_score >= HighValueThreshold
    THEN [dest_agent_type |-> ENGAGEMENT, priority |-> "high",
          reason |-> "high_value_lead"]
    ELSE IF triage_category = "Campaign Qualified"
    THEN [dest_agent_type |-> ENGAGEMENT, priority |-> "medium",
          reason |-> "qualified_lead"]
    ELSE [dest_agent_type |-> CAMPAIGN_OPTIMIZER, priority |-> "low",
          reason |-> "nurture_lead"]
\* _determine_routing(lead_data, triage_category, lead_score)
DetermineRouting(triage_category, lead_score) ==
    IF lead_score >= HighValueThreshold
    THEN [dest_agent_type |-> ENGAGEMENT, priority |-> "high",
          reason |-> "high_value_lead"]
    ELSE IF triage_category = "Campaign Qualified"
    THEN [dest_agent_type |-> ENGAGEMENT, priority |-> "medium",
          reason |-> "qualified_lead"]
    ELSE [dest_agent_type |-> ENGAGEMENT, priority |-> "low",
          reason |-> "nurture_lead"]

\* A triage that reads request['lead_data'] without a default.
LeadTriageBodyRequiringLeadData(agent, request) ==
    IF "lead_data" \notin DOMAIN request THEN Raise("KeyError")
    ELSE IF request.lead_data.shape # "dict" THEN Raise("AttributeError")
    ELSE LET lead_data == request.lead_data.value
         IN  Return([status |-> "success",
                     triage_category |-> ClassifyLead(lead_data),
                     lead_score |-> CalculateLeadScore(lead_data),
                     routing_decision |->
                         DetermineRouting(ClassifyLead(lead_data),
                                          CalculateLeadScore(lead_data)),
                     action |-> Action(agent,
                                       Get(request, "conversation_id", ""),
                                       Get(lead_data, "lead_id", ""),
                                       "triage")])
\* The try block of LeadTriageAgent.process_request: lead_data.get raises
\* for a lead_data that is no dict.
LeadTriageBody(agent, request) ==
    LET payload == Get(request, "lead_data", AsDict(EmptyDict))
        lead_data == payload.value
    IN  IF payload.shape # "dict" THEN Raise("AttributeError")
        ELSE Return([status |-> "success",
                     triage_category |-> ClassifyLead(lead_data),
                     lead_score |-> CalculateLeadScore(lead_data),
                     routing_decision |->
                         DetermineRouting(ClassifyLead(lead_data),
                                          CalculateLeadScore(lead_data)),
                     action |-> Action(agent,
                                       Get(request, "conversation_id", ""),
                                       Get(lead_data, "lead_id", ""),
                                       "triage")])

\* The try block of EngagementAgent.process_request.
EngagementBody(agent, request) ==
    LET lead_data == Get(request, "lead_data", AsDict(EmptyDict))
    IN  IF lead_data.shape # "dict" THEN Raise("AttributeError")
        ELSE Return([status |-> "success",
                     action |-> Action(agent,
                                       Get(request, "conversation_id", ""),
                                       Get(lead_data.value, "lead_id", ""),
                                       "outreach")])

\* The try block of CampaignOptimizationAgent.process_request, for the
\* default optimization_type: campaign_data.get raises for a campaign_data
\* that is no dict, ctr < threshold for a ctr that is a str.
OptimizationBody(agent, request) ==
    LET campaign_data == Get(request, "campaign_data", AsDict(EmptyDict))
    IN  IF campaign_data.shape # "dict" THEN Raise("AttributeError")
        ELSE IF "ctr" \in DOMAIN campaign_data.value THEN Raise("TypeError")
        ELSE Return([status |-> "success",
                     action |-> Action(agent,
                                       Get(request, "conversation_id", ""),
                                       "", "optimize")])

Body(agent, request) ==
    CASE agent.agent_type = LEAD_TRIAGE -> LeadTriageBody(agent, request)
      [] agent.agent_type = ENGAGEMENT -> EngagementBody(agent, request)
      [] agent.agent_type = CAMPAIGN_OPTIMIZER ->
            OptimizationBody(agent, request)

\* A handler that catches KeyError only.
CatchesKeyErrorOnly(exc) == exc = "KeyError"
\* except Exception as e: AttributeError and TypeError are Exceptions.
Catches(exc) == exc \in {"AttributeError", "TypeError", "KeyError"}

\* process_request(request) of agent.
ProcessRequest(agent, request) ==
    LET out == Body(agent, request)
    IN  IF out.kind = "raise" /\ Catches(out.exc)
        THEN Return([status |-> "error", message |-> out.exc])
        ELSE out

\* The request handle_handoff(context) of agent builds.
HandoffRequest(agent, context) ==
    CASE agent.agent_type = LEAD_TRIAGE ->
            [lead_data |-> context.metadata,
             conversation_id |-> context.conversation_id]
      [] agent.agent_type = ENGAGEMENT ->
            [lead_data |-> context.metadata,
             conversation_id |-> context.conversation_id,
             engagement_type |-> "follow_up"]
      [] agent.agent_type = CAMPAIGN_OPTIMIZER ->
            [campaign_data |-> context.metadata,
             conversation_id |-> context.conversation_id,
             optimization_type |-> "performance_check"]

\* handle_handoff(context) of agent.
HandleHandoff(agent, context) ==
    ProcessRequest(agent, HandoffRequest(agent, context))

\* engagement_history after agent has processed request:
\* _execute_engagement appends a record under the lead_id.
HistoryAfter(history, agent, request) ==
    LET out == Body(agent, request)
    IN  IF agent.agent_type = ENGAGEMENT /\ out.kind = "return"
        THEN LET lead_id == out.value.action.lead_id
             IN  [history EXCEPT
                     ![<<agent.agent_id, agent.instance>>][lead_id] = @ + 1]
        ELSE history

HistoryTotal(history) ==
    LET RECURSIVE Sum(_)
        Sum(S) == IF S = {} THEN 0
                  ELSE LET x == CHOOSE y \in S : TRUE
                       IN  history[x[1]][x[2]] + Sum(S \ {x})
    IN  Sum((AgentIds \X Instances) \X (OrchLeadIds \cup {""}))

(***************************************************************************)
(* AgentOrchestrator.                                                      *)
(***************************************************************************)
\* The agent type route_request routes a request type to.
RouteType(request_type) ==
    CASE request_type = "lead_triage" -> LEAD_TRIAGE
      [] request_type = "engagement" -> ENGAGEMENT
      [] request_type = "campaign_optimization" -> CAMPAIGN_OPTIMIZER
      [] OTHER -> None

NoCall == <<>>
Call(agent, method) == <<[agent |-> agent, method |-> method]>>

\* route_request(request): the calls it makes on agents and how it ends.
Route(items, request) ==
    LET agent_type == RouteType(Get(request, "type", ""))
        candidates == AgentsOfType(items, agent_type)
    IN  IF agent_type = None
        THEN [invoked |-> NoCall,
              outcome |-> Return([status |-> "error",
                                  message |-> "Unknown request type"])]
        ELSE IF candidates = <<>>
        THEN [invoked |-> NoCall,
              outcome |-> Return([status |-> "error",
                                  message |-> "No agents available"])]
        ELSE [invoked |-> Call(candidates[1], "process_request"),
              outcome |-> ProcessRequest(candidates[1], request)]

\* A handoff that also calls the agent registered as source_agent_id.
HandoffNotifyingSource(items, source_agent_id, dest_agent_type, context) ==
    LET dest_agents == AgentsOfType(items, dest_agent_type)
        source == SelectSeq(items, LAMBDA it : it.key = source_agent_id)
    IN  IF dest_agents = <<>>
        THEN [invoked |-> NoCall,
              outcome |-> Return([status |-> "error",
                                  message |-> "No agents available"])]
        ELSE [invoked |-> Call(dest_agents[1], "handle_handoff")
                          \o (IF source = <<>> THEN NoCall
                              ELSE Call(source[1].value, "handle_handoff")),
              outcome |-> HandleHandoff(dest_agents[1], context)]
\* execute_handoff(source_agent_id, dest_agent_type, context).
Handoff(items, source_agent_id, dest_agent_type, context) ==
    LET dest_agents == AgentsOfType(items, dest_agent_type)
    IN  IF dest_agents = <<>>
        THEN [invoked |-> NoCall,
              outcome |-> Return([status |-> "error",
                                  message |-> "No agents available"])]
        ELSE [invoked |-> Call(dest_agents[1], "handle_handoff"),
              outcome |-> HandleHandoff(dest_agents[1], context)]

\* For the history: the conversations triaged once outcome is returned.
TriagedAfter(done, outcome) ==
    IF /\ outcome.kind = "return"
       /\ "action" \in DOMAIN outcome.value
       /\ outcome.value.action.action_type = "triage"
    THEN done \cup {outcome.value.action.conversation_id}
    ELSE done

register_agent(agent) ==
    /\ agents' = OrderedSet(agents, agent.agent_id, agent)
    /\ reg_order' = IF agent.agent_id \in Range(reg_order) THEN reg_order
                    ELSE Append(reg_order, agent.agent_id)
    /\ last_registered' = DictSet(last_registered, agent.agent_id, agent)
    /\ replaced_ids' =
          IF /\ agent.agent_id \in DOMAIN last_registered
             /\ last_registered[agent.agent_id] # agent
          THEN replaced_ids \cup {agent.agent_id}
          ELSE replaced_ids
    /\ ret' = [op |-> "register_agent", agent |-> agent]
    /\ UNCHANGED <<now, short_term_vars, long_term_vars, service_vars,
                   episodic_vars,
                   semantic_vars, consolidation_vars, engagement_history,
                   inflight, triaged>>

route_request(request) ==
    /\ HistoryTotal(engagement_history) < MaxEngagements
    /\ LET r == Route(agents, request)
       IN  /\ engagement_history' =
                 IF r.invoked = NoCall THEN engagement_history
                 ELSE HistoryAfter(engagement_history,
                                   r.invoked[1].agent, request)
           /\ triaged' = TriagedAfter(triaged, r.outcome)
           /\ ret' = [op |-> "route_request", request |-> request,
                      invoked |-> r.invoked, outcome |-> r.outcome]
    /\ UNCHANGED <<now, short_term_vars, long_term_vars, service_vars,
                   episodic_vars,
                   semantic_vars, consolidation_vars, agents, reg_order,
                   inflight, last_registered, replaced_ids>>

execute_handoff(source_agent_id, dest_agent_type, context) ==
    /\ HistoryTotal(engagement_history) < MaxEngagements
    /\ LET r == Handoff(agents, source_agent_id, dest_agent_type, context)
       IN  /\ engagement_history' =
                 IF r.invoked = NoCall THEN engagement_history
                 ELSE HistoryAfter(engagement_history, r.invoked[1].agent,
                                   HandoffRequest(r.invoked[1].agent,
                                                  context))
           /\ ret' = [op |-> "execute_handoff",
                      source_agent_id |-> source_agent_id,
                      dest_agent_type |-> dest_agent_type,
                      context |-> context,
                      invoked |-> r.invoked, outcome |-> r.outcome]
           /\ triaged' = TriagedAfter(triaged, r.outcome)
    /\ UNCHANGED <<now, short_term_vars, long_term_vars, service_vars,
                   episodic_vars,
                   semantic_vars, consolidation_vars, agents, reg_order,
                   inflight, last_registered, replaced_ids>>

(***************************************************************************)
(* route_request and execute_handoff in two steps.  Both are coroutines:   *)
(* they build the list of candidates and take its first element without    *)
(* an await in between, then await the agent.  Other calls of the event     *)
(* loop, register_agent among them, may run while the agent is awaited.     *)
(***************************************************************************)
\* A call that picks its agent from the registry when the agent is resumed.
SelectedAgentFromRegistry(candidates, items, agent_type) ==
    IF AgentsOfType(items, agent_type) = <<>> THEN candidates[1]
    ELSE AgentsOfType(items, agent_type)[1]
\* selected_agent = triage_agents[0]: the first of the list built when the
\* call started, whatever the registry items hold by now.
SelectedAgent(candidates, items, agent_type) == candidates[1]

\* The call in flight, with what the registry offered when it started.
InFlight(method, agent_type, arg, items) ==
    [method |-> method, agent_type |-> agent_type, arg |-> arg,
     candidates |-> AgentsOfType(items, agent_type)]

\* route_request(request) up to its await of the agent; it returns at once
\* when it has no agent to await.
route_start(request) ==
    /\ inflight = <<>>
    /\ HistoryTotal(engagement_history) < MaxEngagements
    /\ LET agent_type == RouteType(Get(request, "type", ""))
       IN  IF agent_type = None \/ AgentsOfType(agents, agent_type) = <<>>
           THEN /\ ret' = [op |-> "route_request", request |-> request,
                           invoked |-> NoCall,
                           outcome |-> Route(agents, request).outcome]
                /\ UNCHANGED inflight
           ELSE /\ inflight' = <<InFlight("process_request", agent_type,
                                          request, agents)>>
                /\ ret' = [op |-> "call_start",
                           selected |-> AgentsOfType(agents, agent_type)[1]]
    /\ UNCHANGED <<now, short_term_vars, long_term_vars, service_vars,
                   episodic_vars,
                   semantic_vars, consolidation_vars, agents, reg_order,
                   engagement_history, last_registered, replaced_ids,
                   triaged>>

\* execute_handoff(source_agent_id, dest_agent_type, context) up to its
\* await of the agent.
handoff_start(source_agent_id, dest_agent_type, context) ==
    /\ inflight = <<>>
    /\ HistoryTotal(engagement_history) < MaxEngagements
    /\ IF AgentsOfType(agents, dest_agent_type) = <<>>
       THEN /\ ret' = [op |-> "execute_handoff",
                       source_agent_id |-> source_agent_id,
                       dest_agent_type |-> dest_agent_type,
                       context |-> context, invoked |-> NoCall,
                       outcome |-> Handoff(agents, source_agent_id,
                                           dest_agent_type, context).outcome]
            /\ UNCHANGED inflight
       ELSE /\ inflight' = <<InFlight("handle_handoff", dest_agent_type,
                                      context, agents)>>
            /\ ret' = [op |-> "call_start",
                       selected |-> AgentsOfType(agents, dest_agent_type)[1]]
    /\ UNCHANGED <<now, short_term_vars, long_term_vars, service_vars,
                   episodic_vars,
                   semantic_vars, consolidation_vars, agents, reg_order,
                   engagement_history, last_registered, replaced_ids,
                   triaged>>

\* The awaited agent runs and the call in flight returns its result.
call_finish ==
    /\ inflight # <<>>
    /\ LET c == inflight[1]
           agent == SelectedAgent(c.candidates, agents, c.agent_type)
           request == IF c.method = "process_request" THEN c.arg
                      ELSE HandoffRequest(agent, c.arg)
           outcome == ProcessRequest(agent, request)
       IN  /\ engagement_history' =
                 HistoryAfter(engagement_history, agent, request)
           /\ triaged' = TriagedAfter(triaged, outcome)
           /\ ret' = [op |-> "call_finish", agent_type |-> c.agent_type,
                      first_at_start |-> c.candidates[1],
                      invoked |-> Call(agent, c.method),
                      outcome |-> outcome]
    /\ inflight' = <<>>
    /\ UNCHANGED <<now, short_term_vars, long_term_vars, service_vars,
                   episodic_vars,
                   semantic_vars, consolidation_vars, agents, reg_order,
                   last_registered, replaced_ids>>

\* The lead_data dicts of the triage requests: every field optional.
TriageLeadData ==
    {DictUpdate(DictUpdate(DictUpdate(DictUpdate(so, pe), ind), cs), re) :
        so \in {EmptyDict, [source |-> "Website"], [source |-> "Google Ads"]},
        pe \in {EmptyDict, [persona |-> "Founder"]},
        ind \in {EmptyDict, [industry |-> "Legal"], [industry |-> "SaaS"]},
        cs \in {EmptyDict, [company_size |-> "5000+"],
                [company_size |-> "11-50"]},
        re \in {EmptyDict, [region |-> "US"]}}
\* The triage requests: the empty request, one whose lead_data is no
\* mapping, and one for each lead_data dict.
TriageRequests ==
    {EmptyDict, [lead_data |-> NotADict]}
    \cup {[lead_data |-> AsDict(d)] : d \in TriageLeadData}

\* LeadTriageAgent("LT-001").process_request(request)
triage_process_request(request) ==
    /\ ret' = [op |-> "triage_process_request", request |-> request,
               outcome |-> ProcessRequest([agent_id |-> "A-1",
                                           agent_type |-> LEAD_TRIAGE,
                                           instance |-> 1],
                                          request)]
    /\ UNCHANGED <<now, short_term_vars, long_term_vars, episodic_vars,
                   semantic_vars, component_vars>>

(***************************************************************************)
(* AgentMemorySystem.store_episode of src/src/data_processor.py called    *)
(* from two threads: the method is synchronous, so two calls overlap only *)
(* on different threads.  A thread runs one statement of the method at a  *)
(* time; list.sort is the one statement in which the interpreter runs     *)
(* Python code (the key function) and so lets another thread in.          *)
(* CPython empties the list for the time of the sort and keeps its items  *)
(* aside; if the list is not empty when the sort ends, the sort restores  *)
(* the sorted items, drops what was put in meanwhile and raises           *)
(* ValueError("list modified during sort").                               *)
(***************************************************************************)
Threads == {"T1", "T2"}
\* The list objects: the one self.episodic_memory refers to, the one a
\* thread is sorting, and the one a slice creates.
ObjIds == {0, 1, 2}
NoObj == -1
ThreadScores == {0, 1}
NoEpisode == [episode_id |-> -1, scenario |-> <<>>, outcome_score |-> -1]
Idle == [pc |-> "idle", episode |-> NoEpisode, ref |-> NoObj, saved |-> <<>>]

\* The list objects something refers to.
Referenced(self, thread) ==
    {self} \cup ({thread[t].ref : t \in Threads} \ {NoObj})
\* The heap without the items of the objects nothing refers to.
Collected(heap, self, thread) ==
    [o \in ObjIds |->
        IF o \in Referenced(self, thread) THEN heap[o] ELSE <<>>]
\* The object a new list gets.
NewObj(self, thread) ==
    CHOOSE o \in ObjIds \ Referenced(self, thread) :
        \A p \in ObjIds \ Referenced(self, thread) : o <= p

\* Whether list.sort ends with ValueError: the list it emptied has items.
SortEndRaises(visible) == visible # <<>>

\* episode = {...}: the dict is built with the length of the list.
store_episode_begin(t, outcome_score) ==
    /\ ep_thread[t].pc = "idle"
    /\ ep_calls < MaxAppends
    /\ ep_thread' =
          [ep_thread EXCEPT
              ![t] = [pc |-> "append",
                      episode |-> [episode_id |-> Len(ep_heap[ep_self]),
                                   scenario |-> <<"a">>,
                                   outcome_score |-> outcome_score],
                      ref |-> NoObj, saved |-> <<>>]]
    /\ ep_calls' = ep_calls + 1
    /\ UNCHANGED <<ep_heap, ep_self, ret>>
    /\ UNCHANGED <<now, short_term_vars, long_term_vars, episodic_vars,
                   semantic_vars, consolidation_vars, orchestrator_vars,
                   resource_vars, limiter_vars>>

\* self.episodic_memory.append(episode)
store_episode_append(t) ==
    /\ ep_thread[t].pc = "append"
    /\ ep_heap' = [ep_heap EXCEPT
                      ![ep_self] = Append(@, ep_thread[t].episode)]
    /\ ep_thread' = [ep_thread EXCEPT ![t].pc = "check"]
    /\ UNCHANGED <<ep_self, ep_calls, ret>>
    /\ UNCHANGED <<now, short_term_vars, long_term_vars, episodic_vars,
                   semantic_vars, consolidation_vars, orchestrator_vars,
                   resource_vars, limiter_vars>>

\* if len(self.episodic_memory) > 1000: ... else the method returns.
store_episode_length_check(t) ==
    /\ ep_thread[t].pc = "check"
    /\ IF Len(ep_heap[ep_self]) > MaxEpisodes
       THEN /\ ep_thread' = [ep_thread EXCEPT ![t].pc = "sort"]
            /\ UNCHANGED ret
       ELSE /\ ep_thread' = [ep_thread EXCEPT ![t] = Idle]
            /\ ret' = [op |-> "store_episode_thread", thread |-> t,
                       outcome |-> "return", evicted |-> FALSE]
    /\ UNCHANGED <<ep_heap, ep_self, ep_calls>>
    /\ UNCHANGED <<now, short_term_vars, long_term_vars, episodic_vars,
                   semantic_vars, consolidation_vars, orchestrator_vars,
                   resource_vars, limiter_vars>>

\* self.episodic_memory.sort(...) starts: the list is emptied.
store_episode_sort_begin(t) ==
    /\ ep_thread[t].pc = "sort"
    /\ ep_thread' = [ep_thread EXCEPT ![t].pc = "sorting",
                                      ![t].ref = ep_self,
                                      ![t].saved = ep_heap[ep_self]]
    /\ ep_heap' = [ep_heap EXCEPT ![ep_self] = <<>>]
    /\ UNCHANGED <<ep_self, ep_calls, ret>>
    /\ UNCHANGED <<now, short_term_vars, long_term_vars, episodic_vars,
                   semantic_vars, consolidation_vars, orchestrator_vars,
                   resource_vars, limiter_vars>>

\* self.episodic_memory.sort(...) ends: the sorted items are put back, and
\* the method goes on or ends with ValueError.
store_episode_sort_end(t) ==
    LET obj == ep_thread[t].ref
        raises == SortEndRaises(ep_heap[obj])
        thread == [ep_thread EXCEPT
                      ![t] = IF raises THEN Idle
                             ELSE [@ EXCEPT !.pc = "truncate",
                                            !.ref = NoObj,
                                            !.saved = <<>>]]
    IN  /\ ep_thread[t].pc = "sorting"
        /\ ep_thread' = thread
        /\ ep_heap' =
              Collected([ep_heap EXCEPT
                            ![obj] = SortByScoreDesc(ep_thread[t].saved)],
                        ep_self, thread)
        /\ ret' = IF raises
                  THEN [op |-> "store_episode_thread", thread |-> t,
                        outcome |-> "ValueError", evicted |-> FALSE]
                  ELSE ret
        /\ UNCHANGED <<ep_self, ep_calls>>
        /\ UNCHANGED <<now, short_term_vars, long_term_vars, episodic_vars,
                       semantic_vars, consolidation_vars, orchestrator_vars,
                       resource_vars, limiter_vars>>

\* self.episodic_memory = self.episodic_memory[:1000], and the return.
store_episode_truncate(t) ==
    LET obj == NewObj(ep_self, ep_thread)
        thread == [ep_thread EXCEPT ![t] = Idle]
    IN  /\ ep_thread[t].pc = "truncate"
        /\ ep_thread' = thread
        /\ ep_self' = obj
        /\ ep_heap' =
              Collected([ep_heap EXCEPT
                            ![obj] = SliceTo(ep_heap[ep_self], MaxEpisodes)],
                        obj, thread)
        /\ ret' = [op |-> "store_episode_thread", thread |-> t,
                   outcome |-> "return", evicted |-> TRUE]
        /\ UNCHANGED ep_calls
        /\ UNCHANGED <<now, short_term_vars, long_term_vars, episodic_vars,
                       semantic_vars, consolidation_vars, orchestrator_vars,
                       resource_vars, limiter_vars>>

(***************************************************************************)
(* ResourceManager of src/src/mcp_server.py, and its copy of              *)
(* src/src/mcp/mcp_server.py.  A resource URI is the sequence of its      *)
(* parts, so that str.startswith is a prefix test; a result dict keeps    *)
(* the fields the callers read.  What the data files hold is outside the  *)
(* program: data_ok says whether pd.read_csv succeeds.                    *)
(***************************************************************************)
ResourceUris ==
    {<<"db://", "leads">>, <<"db://", "campaigns">>,
     <<"analytics://", "events">>, <<"ftp://", "x">>}
McpResourceUris ==
    {<<"data://", "leads">>, <<"data://", "orders">>,
     <<"memory://", "short_term">>, <<"db://", "leads">>}
\* scope: a ResourceScope, or the None the tests pass.
Scopes == {"read", None}
Operations == {"SELECT", "DROP"}
McpOperations == {"read"}
Actors == {"MCP-Server", "Agent-Client", "Unknown-Actor"}
McpActors == {"agent_system", "Agent-Client", "Unknown-Actor"}

\* uri.startswith(prefix)
StartsWith(uri, prefix) ==
    /\ Len(prefix) <= Len(uri)
    /\ SubSeq(uri, 1, Len(prefix)) = prefix

\* permission_matrix of _check_permissions
PermissionMatrix ==
    [a \in {"MCP-Server", "Agent-Client", "Optimizer-Worker"} |->
        CASE a = "MCP-Server" ->
                {<<"db://", "leads">>, <<"db://", "campaigns">>,
                 <<"db://", "interactions">>, <<"kg://", "graph">>}
          [] a = "Agent-Client" ->
                {<<"db://", "leads">>, <<"db://", "interactions">>,
                 <<"analytics://", "events">>}
          [] a = "Optimizer-Worker" ->
                {<<"db://", "campaigns">>, <<"analytics://", "events">>,
                 <<"kg://", "graph">>}]

\* _check_permissions(resource_uri, scope, actor) of mcp_server.py
CheckPermissions(resource_uri, actor) ==
    \E allowed \in Get(PermissionMatrix, actor, {}) :
        StartsWith(resource_uri, allowed)

\* _check_permissions(resource_uri, scope, actor) of mcp/mcp_server.py
McpCheckPermissions(resource_uri, actor) == TRUE

\* _access_database(resource_uri, operation): every failure is caught and
\* returned as an error dict.
AccessDatabase(resource_uri, operation, data_ok) ==
    IF /\ resource_uri[2] \in {"leads", "campaigns", "interactions"}
       /\ Len(resource_uri) = 2
       /\ data_ok
       /\ operation \in {"SELECT", "INSERT", "UPDATE"}
    THEN Return([status |-> "success"])
    ELSE Return([status |-> "error"])

\* _access_knowledge_graph(resource_uri, operation)
AccessKnowledgeGraph(resource_uri, operation, data_ok) ==
    IF data_ok /\ operation \in {"SELECT", "MERGE"}
    THEN Return([status |-> "success"])
    ELSE Return([status |-> "error"])

\* _access_analytics(resource_uri, operation)
AccessAnalytics(resource_uri, operation, data_ok) ==
    IF data_ok THEN Return([status |-> "success"])
    ELSE Return([status |-> "error"])

\* _execute_resource_access(resource_uri, operation) of mcp_server.py
ExecuteResourceAccess(resource_uri, operation, data_ok) ==
    CASE resource_uri[1] = "db://" ->
            AccessDatabase(resource_uri, operation, data_ok)
      [] resource_uri[1] = "kg://" ->
            AccessKnowledgeGraph(resource_uri, operation, data_ok)
      [] resource_uri[1] = "analytics://" ->
            AccessAnalytics(resource_uri, operation, data_ok)
      [] OTHER -> Raise("ValueError")

\* _execute_resource_access(resource_uri, operation) of mcp/mcp_server.py
McpExecuteResourceAccess(resource_uri, operation) ==
    CASE resource_uri[1] = "data://" ->
            IF resource_uri[2] \in {"leads", "campaigns"}
            THEN Return([resource_type |-> resource_uri[2],
                         operation |-> operation])
            ELSE Return([error |-> "Unknown data resource"])
      [] resource_uri[1] = "memory://" ->
            Return([resource_type |-> "memory", operation |-> operation])
      [] OTHER -> Return([error |-> "Unknown resource URI scheme"])

\* access_record
AccessRecord(resource_uri, scope, operation, actor, success) ==
    [resource_uri |-> resource_uri, scope |-> scope,
     operation |-> operation, actor |-> actor, success |-> success]

\* What access_resource of mcp_server.py appends to the log, whether it
\* executes the access, and how it ends.
AccessResource(resource_uri, scope, operation, actor, data_ok) ==
    LET failed == AccessRecord(resource_uri, scope, operation, actor, FALSE)
        done == AccessRecord(resource_uri, scope, operation, actor, TRUE)
        result == ExecuteResourceAccess(resource_uri, operation, data_ok)
    IN  IF scope = None
        \* scope.value raises before access_record is bound, and the
        \* handler's access_record['success'] raises in its turn.
        THEN [appended |-> <<>>, executed |-> FALSE,
              outcome |-> Raise("UnboundLocalError")]
        ELSE IF ~CheckPermissions(resource_uri, actor)
        \* The record is appended before the raise, and again by the
        \* handler that catches the PermissionError and raises it again.
        THEN [appended |-> <<failed, failed>>, executed |-> FALSE,
              outcome |-> Raise("PermissionError")]
        ELSE IF result.kind = "raise"
        THEN [appended |-> <<failed>>, executed |-> TRUE,
              outcome |-> result]
        ELSE [appended |-> <<done>>, executed |-> TRUE, outcome |-> result]

\* The same for access_resource of mcp/mcp_server.py, whose handler
\* returns {'error': str(e)}.
McpAccessResource(resource_uri, scope, operation, actor) ==
    LET failed == AccessRecord(resource_uri, scope, operation, actor, FALSE)
        done == AccessRecord(resource_uri, scope, operation, actor, TRUE)
    IN  IF scope = None
        THEN [appended |-> <<>>, executed |-> FALSE,
              outcome |-> Return([error |-> "AttributeError"])]
        ELSE IF ~McpCheckPermissions(resource_uri, actor)
        THEN [appended |-> <<failed>>, executed |-> FALSE,
              outcome |-> Return([error |-> "PermissionError"])]
        ELSE [appended |-> <<done>>, executed |-> TRUE,
              outcome |-> McpExecuteResourceAccess(resource_uri, operation)]

\* ResourceManager.access_resource of mcp_server.py
access_resource(resource_uri, scope, operation, actor, data_ok) ==
    LET r == AccessResource(resource_uri, scope, operation, actor, data_ok)
    IN  /\ rm_calls < MaxAccesses
        /\ access_log' = access_log \o r.appended
        /\ rm_calls' = rm_calls + 1
        /\ ret' = [op |-> "access_resource", resource_uri |-> resource_uri,
                   actor |-> actor, scope |-> scope,
                   executed |-> r.executed, outcome |-> r.outcome]
        /\ UNCHANGED <<mcp_access_log, mcp_calls>>
        /\ UNCHANGED <<now, short_term_vars, long_term_vars, episodic_vars,
                       semantic_vars, consolidation_vars, orchestrator_vars,
                       race_vars, limiter_vars>>

\* ResourceManager.access_resource of mcp/mcp_server.py
mcp_access_resource(resource_uri, scope, operation, actor) ==
    LET r == McpAccessResource(resource_uri, scope, operation, actor)
    IN  /\ mcp_calls < MaxAccesses
        /\ mcp_access_log' = mcp_access_log \o r.appended
        /\ mcp_calls' = mcp_calls + 1
        /\ ret' = [op |-> "mcp_access_resource",
                   resource_uri |-> resource_uri, actor |-> actor,
                   scope |-> scope, executed |-> r.executed,
                   outcome |-> r.outcome]
        /\ UNCHANGED <<access_log, rm_calls>>
        /\ UNCHANGED <<now, short_term_vars, long_term_vars, episodic_vars,
                       semantic_vars, consolidation_vars, orchestrator_vars,
                       race_vars, limiter_vars>>

(***************************************************************************)
(* OpenAIRateLimiter of src/src/ai/utils.py.  The loop time is in ticks   *)
(* of which Minute make the 60 seconds of the window.  acquire runs on    *)
(* the event loop without interruption up to its asyncio.sleep; a caller  *)
(* that sleeps is woken at its wake time or later, and then records its   *)
(* usage.                                                                  *)
(***************************************************************************)
Callers == {"k1", "k2", "k3"}
TokenCounts == {1, 2}

\* [x for x in seq if x.ts > minute_ago]
RECURSIVE After(_, _)
After(seq, minute_ago) ==
    IF seq = <<>> THEN <<>>
    ELSE IF Head(seq).ts > minute_ago
         THEN <<Head(seq)>> \o After(Tail(seq), minute_ago)
         ELSE After(Tail(seq), minute_ago)

\* sum(t for t, ts in seq)
RECURSIVE SumTokens(_)
SumTokens(seq) ==
    IF seq = <<>> THEN 0 ELSE Head(seq).tokens + SumTokens(Tail(seq))

\* min(ts for ts in seq), for a list that is not empty
MinTs(seq) ==
    CHOOSE x \in {seq[i].ts : i \in 1 .. Len(seq)} :
        \A i \in 1 .. Len(seq) : x <= seq[i].ts

\* _check_limits(tokens)
CheckLimits(timestamps, usage, tokens, t) ==
    /\ Len(After(timestamps, t - Minute)) < RequestsPerMinute
    /\ SumTokens(After(usage, t - Minute)) + tokens <= TokensPerMinute

\* _calculate_wait_time()
CalculateWaitTime(timestamps, t) ==
    LET oldest_request ==
            IF timestamps # <<>> THEN MinTs(timestamps) ELSE t - Minute
    IN  Max(0, oldest_request + Minute - t)

\* _record_usage(tokens), on the list of timestamps and the list of usage
RecordTimestamp(timestamps, t) == Append(timestamps, [ts |-> t])
RecordTokens(usage, tokens, t) == Append(usage, [tokens |-> tokens, ts |-> t])

Sleeping == {s.caller : s \in sleepers}

\* acquire(tokens), up to its return or its asyncio.sleep
acquire(caller, tokens) ==
    LET timestamps == After(request_timestamps, loop_time - Minute)
        usage == After(token_usage, loop_time - Minute)
    IN  /\ caller \notin Sleeping
        /\ Len(request_timestamps) + Cardinality(sleepers) < MaxAcquires
        /\ IF CheckLimits(timestamps, usage, tokens, loop_time)
           THEN /\ request_timestamps' = RecordTimestamp(timestamps, loop_time)
                /\ token_usage' = RecordTokens(usage, tokens, loop_time)
                /\ UNCHANGED sleepers
                /\ ret' = [op |-> "acquire", caller |-> caller,
                           tokens |-> tokens, waited |-> FALSE]
           ELSE /\ request_timestamps' = timestamps
                /\ token_usage' = usage
                /\ sleepers' = sleepers \cup
                      {[caller |-> caller, tokens |-> tokens,
                        wake |-> loop_time +
                                 CalculateWaitTime(timestamps, loop_time)]}
                /\ ret' = [op |-> "sleep", caller |-> caller,
                           tokens |-> tokens, waited |-> TRUE]
        /\ UNCHANGED loop_time
        /\ UNCHANGED <<now, short_term_vars, long_term_vars, episodic_vars,
                       semantic_vars, consolidation_vars, orchestrator_vars,
                       race_vars, resource_vars>>

\* acquire(tokens), from the end of its asyncio.sleep
acquire_wake(s) ==
    /\ s \in sleepers
    /\ loop_time >= s.wake
    /\ request_timestamps' = RecordTimestamp(request_timestamps, loop_time)
    /\ token_usage' = RecordTokens(token_usage, s.tokens, loop_time)
    /\ sleepers' = sleepers \ {s}
    /\ ret' = [op |-> "acquire", caller |-> s.caller, tokens |-> s.tokens,
               waited |-> TRUE]
    /\ UNCHANGED loop_time
    /\ UNCHANGED <<now, short_term_vars, long_term_vars, episodic_vars,
                   semantic_vars, consolidation_vars, orchestrator_vars,
                   race_vars, resource_vars>>

\* The loop time passes.
loop_tick ==
    /\ loop_time < MaxLoopTime
    /\ loop_time' = loop_time + 1
    /\ UNCHANGED <<request_timestamps, token_usage, sleepers, ret>>
    /\ UNCHANGED <<now, short_term_vars, long_term_vars, episodic_vars,
                   semantic_vars, consolidation_vars, orchestrator_vars,
                   race_vars, resource_vars>>

Init ==
    /\ now = 0
    /\ short_term_memory = EmptyDict
    /\ st_storage = EmptyDict
    /\ st_last_put = EmptyDict
    /\ long_term_memory = EmptyDict
    /\ utils_long_term_memory = EmptyDict
    /\ lt_calls = [l \in LeadIds |-> 0]
    /\ utils_lt_calls = [l \in LeadIds |-> 0]
    /\ episodic_memory = <<>>
    /\ ep_appends = 0
    /\ ep_max_evicted = -1
    /\ semantic_knowledge = <<>>
    /\ sem_writes = [t \in Triples |-> [count |-> 0, max |-> 0]]
    /\ ms_short_term = EmptyDict
    /\ ms_long_term = EmptyDict
    /\ ms_episodic = <<>>
    /\ ms_semantic = {}
    /\ ms_runs = 0
    /\ agents = <<>>
    /\ reg_order = <<>>
    /\ engagement_history =
          [a \in AgentIds \X Instances |->
              [l \in OrchLeadIds \cup {""} |-> 0]]
    /\ inflight = <<>>
    /\ last_registered = EmptyDict
    /\ replaced_ids = {}
    /\ ep_heap = [o \in ObjIds |-> <<>>]
    /\ ep_self = 0
    /\ ep_thread = [t \in Threads |-> Idle]
    /\ ep_calls = 0
    /\ access_log = <<>>
    /\ rm_calls = 0
    /\ mcp_access_log = <<>>
    /\ mcp_calls = 0
    /\ loop_time = 0
    /\ request_timestamps = <<>>
    /\ token_usage = <<>>
    /\ sleepers = {}
    /\ triaged = {}
    /\ ret = [op |-> "init"]

ShortTermMemoryNext ==
    \/ Tick
    \/ \E k \in ConversationIds, c \in Contexts, d \in TTLHours :
          ShortTermMemory_store(k, c, d)
    \/ \E k \in ConversationIds : ShortTermMemory_get(k)

SpecShortTermMemory == Init /\ [][ShortTermMemoryNext]_vars

LongTermNext ==
    \/ LongTermTick
    \/ \E l \in LeadIds, p \in Preferences, r \in RfmScores :
          update_long_term(l, p, r)

SpecLongTerm == Init /\ [][LongTermNext]_vars

UtilsLongTermNext ==
    \/ LongTermTick
    \/ \E l \in LeadIds, p \in Preferences, r \in RfmScores :
          utils_update_long_term(l, p, r)

SpecLongTermUtils == Init /\ [][UtilsLongTermNext]_vars

EpisodicNext ==
    \/ \E sc \in Scenarios, score \in Scores : store_episode(sc, score)
    \/ \E f \in Fragments, k \in 0 .. MaxTopK : retrieve_similar_episodes(f, k)

SpecEpisodic == Init /\ [][EpisodicNext]_vars

SemanticNext ==
    \/ \E s \in Subjects, p \in Predicates, o \in Objects, w \in Weights :
          update_semantic_knowledge(s, p, o, w)
    \/ \E s \in Subjects \cup {None}, p \in Predicates \cup {None},
          o \in Objects \cup {None} :
          query_semantic_knowledge(s, p, o)

SpecSemantic == Init /\ [][SemanticNext]_vars

ShortTermNext ==
    \/ Tick
    \/ \E k \in ConversationIds, c \in Contexts, d \in TTLHours :
          store_short_term(k, c, d)
    \/ \E k \in ConversationIds : retrieve_short_term(k)

SpecShortTerm == Init /\ [][ShortTermNext]_vars

\* The entries the consolidation runs are given: all carry a sentiment and
\* metrics, so that their scores lie on both sides of the threshold.
StoredMemories ==
    {m \in Memories : /\ "sentiment" \in DOMAIN m
                      /\ m.sentiment = -10
                      /\ "metrics" \in DOMAIN m.data
                      /\ "lead_score" \in DOMAIN m.data.metrics}

ConsolidationNext ==
    \/ Tick
    \/ \E m \in StoredMemories : ms_store(m, 0)
    \/ consolidate_memories

SpecConsolidation == Init /\ [][ConsolidationNext]_vars

ImportanceNext ==
    \E m \in Memories, n \in SimilarCounts : calculate_importance(m, n)

SpecImportance == Init /\ [][ImportanceNext]_vars

SourceAgentIds == {"A-1", "unregistered"}

TriageNext == \E r \in TriageRequests : triage_process_request(r)

SpecTriage == Init /\ [][TriageNext]_vars

OrchestratorNext ==
    \/ \E a \in {x \in Agents : x.instance = 1} : register_agent(a)
    \/ \E r \in Requests : route_request(r)
    \/ \E s \in SourceAgentIds, t \in AgentType, c \in HandoffContexts :
          execute_handoff(s, t, c)

SpecOrchestrator == Init /\ [][OrchestratorNext]_vars

\* The registry under calls in flight: triage and engagement agents, triage
\* requests and handoffs to the engagement agents.
EpisodicThreadsNext ==
    \/ \E t \in Threads, outcome_score \in ThreadScores :
          store_episode_begin(t, outcome_score)
    \/ \E t \in Threads : store_episode_append(t)
    \/ \E t \in Threads : store_episode_length_check(t)
    \/ \E t \in Threads : store_episode_sort_begin(t)
    \/ \E t \in Threads : store_episode_sort_end(t)
    \/ \E t \in Threads : store_episode_truncate(t)
SpecEpisodicThreads == Init /\ [][EpisodicThreadsNext]_vars

ResourceNext ==
    \E resource_uri \in ResourceUris, scope \in Scopes,
       operation \in Operations, actor \in Actors, data_ok \in BOOLEAN :
        access_resource(resource_uri, scope, operation, actor, data_ok)
SpecResource == Init /\ [][ResourceNext]_vars

McpResourceNext ==
    \E resource_uri \in McpResourceUris, scope \in Scopes,
       operation \in McpOperations, actor \in McpActors :
        mcp_access_resource(resource_uri, scope, operation, actor)
SpecMcpResource == Init /\ [][McpResourceNext]_vars

LimiterNext ==
    \/ \E caller \in Callers, tokens \in TokenCounts :
          acquire(caller, tokens)
    \/ \E s \in sleepers : acquire_wake(s)
    \/ loop_tick
SpecLimiter == Init /\ [][LimiterNext]_vars

RegistryAgents == {a \in Agents : a.agent_type # CAMPAIGN_OPTIMIZER}
RegistryRequests ==
    {[type |-> "lead_triage", conversation_id |-> c] :
        c \in OrchConversationIds}
RegistryContexts ==
    {c \in HandoffContexts : c.metadata = AsDict(EmptyDict)}

RegistryNext ==
    \/ \E a \in RegistryAgents : register_agent(a)
    \/ \E r \in RegistryRequests : route_start(r)
    \/ \E c \in RegistryContexts : handoff_start("A-1", ENGAGEMENT, c)
    \/ call_finish

SpecRegistry == Init /\ [][RegistryNext]_vars

(***************************************************************************)
(* Properties of the short-term tier.                                      *)
(***************************************************************************)
\* The last store_short_term call for the key of the retrieve that returned
\* last (only used where that key has been stored).
LastPut == st_last_put[ret.key]
Retrieved == ret.op = "retrieve_short_term" /\ ret.key \in DOMAIN st_last_put
\* The expiry time the last store's arguments give.
PutExpiry(put) == put.at + put.ttl_hours * TicksPerHour

\* C1: with a TTL d > 0, a retrieve of k at the clock reading of the store
\* returns the stored context, and a retrieve after the clock has passed the
\* entry's expiry time, with no store for k in between, returns None.
C1_TTL ==
    (Retrieved /\ LastPut.ttl_hours > 0) =>
        /\ (ret.at = LastPut.at => ret.result = LastPut.context)
        /\ (ret.at > PutExpiry(LastPut) => ret.result = None)

\* A retrieve past the expiry of an entry stored with d > 0 that an earlier
\* retrieve had returned.
C1_Witness ==
    /\ Retrieved
    /\ LastPut.ttl_hours > 0
    /\ LastPut.hit
    /\ ret.at > PutExpiry(LastPut)
    /\ ret.result = None

\* C2: a store replaces whatever the key held: the entry then carries the new
\* context and the expiry computed from the time and TTL of this store, and a
\* later retrieve returns the context of the last store for as long as that
\* expiry has not passed (and never the replaced context).
C2_LastWriteWins ==
    /\ \A k \in DOMAIN short_term_memory :
          /\ k \in DOMAIN st_last_put
          /\ short_term_memory[k].context = st_last_put[k].context
          /\ short_term_memory[k].expires_at = PutExpiry(st_last_put[k])
    /\ ret.op = "store_short_term" => ret.key \in DOMAIN short_term_memory
    /\ Retrieved =>
          /\ ret.result \in {LastPut.context, None}
          /\ (ret.at <= PutExpiry(LastPut) => ret.result = LastPut.context)

\* A retrieve returns the second context after a store that replaced an entry
\* with another context and a later expiry.
C2_Witness ==
    /\ Retrieved
    /\ LastPut.replaced = "later"
    /\ ret.result = LastPut.context

\* C3: a retrieve of an expired entry removes that key and nothing else; a
\* retrieve of an unexpired or missing key leaves the store as it was.
C3_LazyPurge ==
    [][\A k \in ConversationIds :
          retrieve_short_term(k) =>
             IF k \in DOMAIN short_term_memory
                /\ now > short_term_memory[k].expires_at
             THEN /\ DOMAIN short_term_memory' = DOMAIN short_term_memory \ {k}
                  /\ \A j \in DOMAIN short_term_memory' :
                        short_term_memory'[j] = short_term_memory[j]
             ELSE short_term_memory' = short_term_memory]_vars

\* A retrieve found its entry expired and the key is gone, while the other
\* key's entry is still held.
C3_Witness ==
    /\ ret.op = "retrieve_short_term"
    /\ ret.prior # NoEntry
    /\ ret.at > ret.prior.expires_at
    /\ ret.key \notin DOMAIN short_term_memory
    /\ DOMAIN short_term_memory # {}

\* C4: every retrieve of a key whose last store had ttl_hours = 0 returns None,
\* whatever the clock reads.
C4_ZeroTTLExpired ==
    (Retrieved /\ LastPut.ttl_hours = 0) => ret.result = None

(***************************************************************************)
(* Properties of the long-term tier.                                       *)
(***************************************************************************)
\* The interaction counter of a store: a lead updated k >= 1 times has a
\* profile whose interaction_count is k, and a lead never updated has none.
CounterCountsUpdates(ltm, calls) ==
    \A l \in LeadIds :
        IF calls[l] = 0 THEN l \notin DOMAIN ltm
        ELSE /\ l \in DOMAIN ltm
             /\ "interaction_count" \in DOMAIN ltm[l]
             /\ ltm[l].interaction_count = calls[l]

\* C5: the first update_long_term for a lead leaves interaction_count = 1 and
\* each later one adds 1, so after k updates the counter is k (in the class of
\* data_processor.py and in its copy in utils/data_processing.py).
C5_InteractionCounter ==
    /\ CounterCountsUpdates(long_term_memory, lt_calls)
    /\ CounterCountsUpdates(utils_long_term_memory, utils_lt_calls)

\* C5 for the class of data_processor.py alone, which keeps the counter.
C5_DataProcessorCounter == CounterCountsUpdates(long_term_memory, lt_calls)

\* The preferences of the lead last updated, in the store the spec updates.
StoredPreferences ==
    IF ret.lead_id \in DOMAIN long_term_memory
    THEN long_term_memory[ret.lead_id].preferences
    ELSE utils_long_term_memory[ret.lead_id].preferences

\* C6: after an update with p2 of a profile whose preferences were p1, the
\* stored preferences hold every key of p2 with p2's value and every key of
\* p1 that p2 lacks with p1's value.
C6_PreferencesMerge ==
    (ret.op = "update_long_term" /\ ret.had_profile) =>
        /\ \A key \in DOMAIN ret.preferences :
              /\ key \in DOMAIN StoredPreferences
              /\ StoredPreferences[key] = ret.preferences[key]
        /\ \A key \in DOMAIN ret.prior \ DOMAIN ret.preferences :
              /\ key \in DOMAIN StoredPreferences
              /\ StoredPreferences[key] = ret.prior[key]

\* What the code does instead: the stored preferences are the last update's.
C6_PreferencesReplaced ==
    ret.op = "update_long_term" => StoredPreferences = ret.preferences

(***************************************************************************)
(* Properties of the episodic tier.                                        *)
(***************************************************************************)
StoredEpisodes == {episodic_memory[i] : i \in 1 .. Len(episodic_memory)}

\* C7: after every store_episode the store holds at most MaxEpisodes
\* episodes, exactly MaxEpisodes once more than that many have been appended,
\* and no retained episode scores less than an episode that was evicted.
C7_EpisodicBound ==
    /\ Len(episodic_memory) <= MaxEpisodes
    /\ ep_appends > MaxEpisodes => Len(episodic_memory) = MaxEpisodes
    /\ ep_appends <= MaxEpisodes => Len(episodic_memory) = ep_appends
    /\ \A e \in StoredEpisodes : e.outcome_score >= ep_max_evicted

\* Two appends beyond the capacity have evicted, one of them an episode with a
\* score above the lowest, and a retained episode scores more than it.
C7_Witness ==
    /\ ret.op = "store_episode"
    /\ ep_appends >= MaxEpisodes + 2
    /\ Len(episodic_memory) = MaxEpisodes
    /\ ep_max_evicted >= 1
    /\ \E e \in StoredEpisodes : e.outcome_score > ep_max_evicted

\* The scenario label contains the fragment, letter case aside.
ContainsIgnoringCase(fragment, label) ==
    \E off \in 0 .. Len(label) - Len(fragment) :
        \A j \in 1 .. Len(fragment) :
            LowerChar(fragment[j]) = LowerChar(label[off + j])

\* C8: the query returns at most top_k episodes (top_k >= 0), all of them
\* stored episodes whose scenario contains the fragment case-insensitively,
\* in descending order of outcome score; a stored matching episode that is
\* left out scores no more than any returned one, and none is left out while
\* fewer than top_k are returned.
C8_EpisodicQuery ==
    ret.op = "retrieve_similar_episodes" =>
        LET r == ret.result
            returned == {r[i] : i \in 1 .. Len(r)}
            matching == {i \in 1 .. Len(episodic_memory) :
                ContainsIgnoringCase(ret.scenario, episodic_memory[i].scenario)}
        IN  /\ Len(r) <= ret.top_k
            /\ Len(r) = Min(ret.top_k, Cardinality(matching))
            /\ \A e \in returned :
                  /\ e \in StoredEpisodes
                  /\ ContainsIgnoringCase(ret.scenario, e.scenario)
            /\ \A i \in 1 .. Len(r) - 1 :
                  r[i].outcome_score >= r[i + 1].outcome_score
            /\ \A i \in matching :
                  episodic_memory[i] \notin returned =>
                     \A e \in returned :
                        episodic_memory[i].outcome_score <= e.outcome_score

\* A query for "B" with top_k = 1 returned the higher-scoring of two stored
\* matches, the one stored later, under a label that holds "b" in lower case.
C8_Witness ==
    /\ ret.op = "retrieve_similar_episodes"
    /\ ret.scenario = <<"B">>
    /\ ret.top_k = 1
    /\ Len(ret.result) = 1
    /\ Len(episodic_memory) = 2
    /\ episodic_memory[2] = ret.result[1]
    /\ ContainsIgnoringCase(ret.scenario, episodic_memory[1].scenario)
    /\ episodic_memory[1].outcome_score < ret.result[1].outcome_score

(***************************************************************************)
(* Properties of the semantic tier.                                        *)
(***************************************************************************)
KeyOf(t) == TripleKey(t[1], t[2], t[3])
\* The entry stored for a triple: the one under the triple's key.
StoredFor(t) == semantic_knowledge[KeyIndex(semantic_knowledge, KeyOf(t))]
Written == {t \in Triples : sem_writes[t].count > 0}
\* The triples that share the key of t.
SameKey(t) == {x \in Triples : KeyOf(x) = KeyOf(t)}

\* C9: after each update_semantic_knowledge call on a triple, the weight
\* stored for that triple is the maximum of the weights written for it.
C9_MonotoneWeight ==
    \A t \in Written :
        /\ HasKey(semantic_knowledge, KeyOf(t))
        /\ StoredFor(t).weight = sem_writes[t].max

\* What the code keeps instead: the maximum of the weights written under the
\* key, by whichever triples are joined into that key.
C9_MaxPerKey ==
    \A t \in Written :
        /\ HasKey(semantic_knowledge, KeyOf(t))
        /\ \A x \in SameKey(t) : StoredFor(t).weight >= sem_writes[x].max
        /\ \E x \in SameKey(t) : StoredFor(t).weight = sem_writes[x].max

\* C10: the access count stored for a triple is the number of
\* update_semantic_knowledge calls made on it (2 after two calls), whatever
\* queries are made in between.
C10_AccessCount ==
    \A t \in Written :
        /\ HasKey(semantic_knowledge, KeyOf(t))
        /\ StoredFor(t).access_count = sem_writes[t].count

\* What the code keeps instead: the calls made under the key after the one
\* that created the entry.
C10_CountPerKeyLessOne ==
    \A t \in Written :
        /\ HasKey(semantic_knowledge, KeyOf(t))
        /\ StoredFor(t).access_count = SumCounts(SameKey(t)) - 1

(***************************************************************************)
(* Properties of the consolidation engine.                                 *)
(***************************************************************************)
\* The tier writes of the last consolidate_memories call that an entry
\* caused: those done and the one that raised.
CausedWrites(id) == {w \in ret.written \cup ret.failed : w.id = id}

\* C11: consolidate_memories promotes an entry only if its importance is
\* strictly greater than 0.7: an entry scoring 0.7 or less causes no write
\* to a durable tier, an entry scoring more causes a write to at least one.
C11_Threshold ==
    ret.op = "consolidate_memories" =>
        \A i \in 1 .. Len(ret.scored) :
            LET sm == ret.scored[i]
            IN  IF sm.importance_score > PromotionThreshold
                THEN CausedWrites(sm.memory.id) # {}
                ELSE CausedWrites(sm.memory.id) = {}

\* What holds of every run: no entry at or below 0.7 causes a write, and
\* every entry above 0.7 causes one when no write of the run raised.
C11_ThresholdUnlessRaised ==
    ret.op = "consolidate_memories" =>
        \A i \in 1 .. Len(ret.scored) :
            LET sm == ret.scored[i]
            IN  IF sm.importance_score > PromotionThreshold
                THEN ret.raised \/ CausedWrites(sm.memory.id) # {}
                ELSE CausedWrites(sm.memory.id) = {}

\* The memory scored last carries a sentiment and neither a revenue impact
\* nor a lead score.
OnlySentiment ==
    /\ ret.op = "_calculate_importance"
    /\ "sentiment" \in DOMAIN ret.memory
    /\ \/ "metrics" \notin DOMAIN ret.memory.data
       \/ ret.memory.data.metrics = EmptyDict

\* The memory scored last carries none of the three signals.
NoSignal ==
    /\ ret.op = "_calculate_importance"
    /\ "sentiment" \notin DOMAIN ret.memory
    /\ \/ "metrics" \notin DOMAIN ret.memory.data
       \/ ret.memory.data.metrics = EmptyDict

C13_ImportanceRange ==
    ret.op = "_calculate_importance" => ret.score >= 0 /\ ret.score <= 1000

\* What the code keeps: the upper end of the range.
C13_ImportanceAtMostOne ==
    ret.op = "_calculate_importance" => ret.score <= 1000

C15_FailureIsolation ==
    ret.op = "consolidate_memories" =>
        \A i \in 1 .. Len(ret.scored) :
            LET sm == ret.scored[i]
            IN  (/\ sm.importance_score > PromotionThreshold
                 /\ \A w \in ret.failed : w.id # sm.memory.id)
                => [id |-> sm.memory.id, tier |-> "long_term"] \in ret.written

(***************************************************************************)
(* Properties of the orchestrator and the agents.                          *)
(***************************************************************************)
\* The agent registered under an id.
RegisteredAs(id) ==
    agents[CHOOSE i \in 1 .. Len(agents) : agents[i].key = id].value

\* The registered ids whose agent has the type, and the one of them that
\* register_agent saw first.
IdsOfType(agent_type) ==
    {id \in Keys(agents) : RegisteredAs(id).agent_type = agent_type}
FirstRegistered(agent_type) ==
    LET first == CHOOSE i \in 1 .. Len(reg_order) :
                    /\ reg_order[i] \in IdsOfType(agent_type)
                    /\ \A j \in 1 .. i - 1 :
                          reg_order[j] \notin IdsOfType(agent_type)
    IN  RegisteredAs(reg_order[first])

\* The agent type the request routed last asks for.
RoutedType == RouteType(Get(ret.request, "type", ""))

C17_NoEligibleAgent ==
    (/\ ret.op = "route_request"
     /\ \/ RoutedType = None
        \/ IdsOfType(RoutedType) = {})
    => /\ ret.invoked = NoCall
       /\ ret.outcome.kind = "return"
       /\ ret.outcome.value.status = "error"

\* A request of a known type was routed with agents registered, none of
\* the type asked for.
C17_Witness ==
    /\ ret.op = "route_request"
    /\ RoutedType # None
    /\ agents # <<>>
    /\ IdsOfType(RoutedType) = {}
    /\ ret.outcome.value.status = "error"

\* What an execute_handoff does with its destination: one handle_handoff
\* call on the first-registered agent of dest_agent_type, whose result it
\* returns, or an error result and no call when there is no such agent.
HandoffToFirstRegistered ==
    IF IdsOfType(ret.dest_agent_type) = {}
    THEN /\ ret.invoked = NoCall
         /\ ret.outcome.kind = "return"
         /\ ret.outcome.value.status = "error"
    ELSE /\ ret.invoked =
               Call(FirstRegistered(ret.dest_agent_type), "handle_handoff")
         /\ ret.outcome =
               HandleHandoff(FirstRegistered(ret.dest_agent_type),
                             ret.context)

\* The calls of the last operation made on the agent with the id.
CallsOn(id) ==
    {i \in 1 .. Len(ret.invoked) : ret.invoked[i].agent.agent_id = id}

\* C18, as stated: execute_handoff calls handle_handoff once on the
\* first-registered agent of dest_agent_type and returns its result, or
\* returns an error and calls nothing; the source agent is never called.
C18_SourceNeverInvoked ==
    ret.op = "execute_handoff" =>
        /\ HandoffToFirstRegistered
        /\ CallsOn(ret.source_agent_id) = {}

\* C18, amended: the same, but the source agent is called when it is itself
\* the first-registered agent of dest_agent_type, and only then.
C18_SourceInvokedOnlyAsDestination ==
    ret.op = "execute_handoff" =>
        /\ HandoffToFirstRegistered
        /\ CallsOn(ret.source_agent_id) # {} =>
              /\ IdsOfType(ret.dest_agent_type) # {}
              /\ FirstRegistered(ret.dest_agent_type).agent_id =
                    ret.source_agent_id

\* A handoff from an unregistered source was executed by the first of two
\* registered agents of the destination type.
C18_Witness ==
    /\ ret.op = "execute_handoff"
    /\ ret.source_agent_id \notin Keys(agents)
    /\ Cardinality(IdsOfType(ret.dest_agent_type)) = 2
    /\ Len(ret.invoked) = 1
    /\ ret.outcome.value.status = "success"

\* C19: the result of execute_handoff to an agent of any of the three
\* classes carries an action whose lead_id and conversation_id are those of
\* the context, whatever the metadata.
C19_HandoffRoundTrip ==
    (/\ ret.op = "execute_handoff"
     /\ IdsOfType(ret.dest_agent_type) # {})
    => /\ ret.outcome.kind = "return"
       /\ "action" \in DOMAIN ret.outcome.value
       /\ ret.outcome.value.action.lead_id = ret.context.lead_id
       /\ ret.outcome.value.action.conversation_id =
             ret.context.conversation_id

\* What the code keeps: the conversation_id, in every result that carries
\* an action.
C19_ConversationIdKept ==
    (/\ ret.op = "execute_handoff"
     /\ ret.outcome.kind = "return"
     /\ "action" \in DOMAIN ret.outcome.value)
    => ret.outcome.value.action.conversation_id = ret.context.conversation_id

\* C20: process_request propagates no exception: route_request and
\* execute_handoff return a result whose status is 'success' or 'error',
\* whatever the request holds.
C20_NoPropagation ==
    ret.op \in {"route_request", "execute_handoff"} =>
        /\ ret.outcome.kind = "return"
        /\ ret.outcome.value.status \in {"success", "error"}

\* An agent was given a request whose payload has the wrong shape and the
\* caller got an error result.
C20_Witness ==
    /\ ret.op = "route_request"
    /\ Len(ret.invoked) = 1
    /\ \/ Get(ret.request, "lead_data", AsDict(EmptyDict)) = NotADict
       \/ Get(ret.request, "campaign_data", AsDict(EmptyDict)) = NotADict
    /\ ret.outcome.kind = "return"
    /\ ret.outcome.value.status = "error"

\* The lead_data of the request triaged last is absent or a mapping.
TriagedMapping ==
    /\ ret.op = "triage_process_request"
    /\ Get(ret.request, "lead_data", AsDict(EmptyDict)).shape = "dict"

\* C21, as stated: a triage request that lacks lead data or any of its
\* fields, a lead_data that is no mapping included, yields status
\* 'success', never 'error'.
C21_AlwaysSuccess ==
    ret.op = "triage_process_request" =>
        /\ ret.outcome.kind = "return"
        /\ ret.outcome.value.status = "success"

\* C21, amended: a request without lead_data, or whose lead_data is a
\* mapping that lacks any of its fields, yields 'success' with the defaults
\* (for an empty lead_data: 'Cold Lead', score 3.0, low priority); a
\* lead_data that is no mapping yields 'error'.
C21_DefaultsForMissingFields ==
    ret.op = "triage_process_request" =>
        /\ ret.outcome.kind = "return"
        /\ IF TriagedMapping
           THEN /\ ret.outcome.value.status = "success"
                /\ Get(ret.request, "lead_data", AsDict(EmptyDict)).value
                      = EmptyDict
                   => /\ ret.outcome.value.triage_category = "Cold Lead"
                      /\ ret.outcome.value.lead_score = 3
                      /\ ret.outcome.value.routing_decision.priority = "low"
                      /\ ret.outcome.value.action.lead_id = ""
           ELSE ret.outcome.value.status = "error"

\* The empty request was triaged with the defaults.
C21_Witness ==
    /\ ret.op = "triage_process_request"
    /\ ret.request = EmptyDict
    /\ ret.outcome.value.status = "success"
    /\ ret.outcome.value.triage_category = "Cold Lead"

\* The agents on which the last operation made a call.
InvokedAgents == {ret.invoked[i].agent : i \in 1 .. Len(ret.invoked)}

\* C22: the registry holds one agent per agent_id, the one registered last
\* under it, and route_request and execute_handoff select no agent that
\* has been replaced, also when the replacement is of another type.
C22_RegistrationOverwrites ==
    /\ \A i, j \in 1 .. Len(agents) :
          agents[i].key = agents[j].key => i = j
    /\ Keys(agents) = DOMAIN last_registered
    /\ \A id \in Keys(agents) : RegisteredAs(id) = last_registered[id]
    /\ ret.op = "call_start" =>
          ret.selected = last_registered[ret.selected.agent_id]
    /\ ret.op \in {"route_request", "execute_handoff"} =>
          \A a \in InvokedAgents : a = last_registered[a.agent_id]

\* A call has selected the agent registered under an id that held another
\* agent before.
C22_Witness ==
    /\ ret.op = "call_start"
    /\ ret.selected.agent_id \in replaced_ids
    /\ ret.selected = RegisteredAs(ret.selected.agent_id)

\* C24: the agent that handles a route_request or execute_handoff is the
\* first candidate of the registry as it was when the call started,
\* whatever register_agent calls took effect while it was in flight.
C24_SnapshotRouting ==
    ret.op = "call_finish" =>
        /\ Len(ret.invoked) = 1
        /\ ret.invoked[1].agent = ret.first_at_start

\* A call has returned that another agent would get if it started now: a
\* register_agent call changed the first candidate while it was in flight.
C24_Witness ==
    /\ ret.op = "call_finish"
    /\ \/ AgentsOfType(agents, ret.agent_type) = <<>>
       \/ AgentsOfType(agents, ret.agent_type)[1] # ret.invoked[1].agent
    /\ ret.invoked[1].agent = ret.first_at_start

\* The last operation was a route_request or execute_handoff that returned
\* an action.
ProducedAction ==
    /\ ret.op \in {"route_request", "execute_handoff"}
    /\ ret.outcome.kind = "return"
    /\ "action" \in DOMAIN ret.outcome.value

\* C25, as stated: an outreach action is never produced for a conversation
\* id for which no triage action has been produced before.
C25_TriageBeforeOutreach ==
    (ProducedAction /\ ret.outcome.value.action.action_type = "outreach")
    => ret.outcome.value.action.conversation_id \in triaged

\* The action kind of an agent class.
ActionKind(agent_type) ==
    CASE agent_type = LEAD_TRIAGE -> "triage"
      [] agent_type = ENGAGEMENT -> "outreach"
      [] agent_type = CAMPAIGN_OPTIMIZER -> "optimize"

\* C25, amended: the order is not enforced.  The action produced is of the
\* kind of the agent class addressed, whatever the conversation's history;
\* what keeps the order is that every triage result names the engagement
\* agents as destination.
C25_ActionKindOfAddressedType ==
    ProducedAction =>
        /\ Len(ret.invoked) = 1
        /\ ret.outcome.value.action.action_type =
              ActionKind(ret.invoked[1].agent.agent_type)
        /\ ret.outcome.value.action.action_type = "triage" =>
              ret.outcome.value.routing_decision.dest_agent_type = ENGAGEMENT

\* An outreach action was produced for a conversation with no triage
\* action.
C25_Witness ==
    /\ ProducedAction
    /\ ret.outcome.value.action.action_type = "outreach"
    /\ ret.outcome.value.action.conversation_id \notin triaged

\* C23: once the store_episode calls running on two threads have ended,
\* the store holds at most MaxEpisodes episodes.
C23_CapacityAfterConcurrentCalls ==
    (\A t \in Threads : ep_thread[t].pc = "idle")
    => Len(ep_heap[ep_self]) <= MaxEpisodes

\* C26: an access_resource call by an actor that is permitted nothing (it
\* is not in the permission matrix) executes no resource access and ends
\* with the permission failure raised to its caller.
C26_DenialReachesCaller ==
    (/\ ret.op = "mcp_access_resource"
     /\ ret.scope # None
     /\ ret.actor \notin DOMAIN PermissionMatrix)
    => /\ ~ret.executed
       /\ ret.outcome = Raise("PermissionError")

\* C29: the access log holds one record per access_resource call made.
C29_OneRecordPerCall == Len(access_log) = rm_calls

\* C27: no two episodes the store retains have the same episode_id, also
\* after evictions.
C27_UniqueEpisodeIds ==
    \A i, j \in 1 .. Len(episodic_memory) :
        episodic_memory[i].episode_id = episodic_memory[j].episode_id
        => i = j

\* The list query_semantic_knowledge returns for the three fields of t.
QueryFor(t) ==
    SortByRank(MatchingTriples(semantic_knowledge, t[1], t[2], t[3]))

\* C28: every triple written has an entry of its own, which a query for
\* its three fields returns with its subject, predicate, object and the
\* weight written for it, also when the fields hold the separator.
C28_DistinctTriplesStoredSeparately ==
    \A t \in Written :
        /\ Len(QueryFor(t)) = 1
        /\ QueryFor(t)[1].subject = t[1]
        /\ QueryFor(t)[1].predicate = t[2]
        /\ QueryFor(t)[1].object = t[3]
        /\ QueryFor(t)[1].weight = sem_writes[t].max

\* The requests and the tokens recorded in the trailing window.
RecentRequests == Len(After(request_timestamps, loop_time - Minute))
RecentTokens == SumTokens(After(token_usage, loop_time - Minute))

\* C30: the requests recorded within the trailing window never exceed
\* requests_per_minute, nor the tokens recorded within it
\* tokens_per_minute.
C30_RateLimit ==
    /\ RecentRequests <= RequestsPerMinute
    /\ RecentTokens <= TokensPerMinute

====
